---- MODULE Spec2Model ----
(***************************************************************************)
(* The matchmaking engine of RandomDebateBot: services/game_logic.py,      *)
(* class GameManager, as a state machine.                                  *)
(*                                                                         *)
(* The program is a single asyncio event loop.  A coroutine runs without   *)
(* interruption until it awaits bot.send_message; every such await is a    *)
(* suspension point at which any other ready coroutine may run.            *)
(* create_google_meet_event is an ordinary blocking call and suspends      *)
(* nothing.  One step of the model is therefore one run of a coroutine     *)
(* from a suspension point (or its start) to its next suspension point     *)
(* (or its end), nested calls included.                                    *)
(*                                                                         *)
(* A task is the stack of the frames of one coroutine chain; its head is   *)
(* the frame suspended in a send, the frames below wait for the frame      *)
(* above to return (remove_user_from_queues called by _safe_send_message   *)
(* from within the send of the frame below).                               *)
(***************************************************************************)
EXTENDS Integers, Sequences, FiniteSets, TLC

VARIABLES
    waiting_single_players,     \* game_logic.py:28  lang -> list of ids
    waiting_team_first_player,  \* game_logic.py:29  lang -> id or None
    waiting_formed_teams,       \* game_logic.py:30  lang -> list of <<id, id>>
    waiting_judges,             \* game_logic.py:31  lang -> list of ids
    active_rooms,               \* game_logic.py:32  list of rooms
    user_involvement,           \* game_logic.py:33  id -> record
    tasks,                      \* the suspended coroutines (stacks of frames)
    scheduled,                  \* lang -> try_matchmake tasks created, not yet started
    detached,                   \* list objects no longer bound to waiting_single_players
    errors,                     \* source lines at which a KeyError ended a task
    used,                       \* inputs consumed so far, against the run's limits
    limits,                     \* the run's limits on its inputs (never change)
    obs,                        \* what the last step's room check saw (history)
    last_failed,                \* lang -> the reservation rolled back last (history)
    dialogue                    \* main.py:28  id -> FSM state and data (MemoryStorage)

vars == <<waiting_single_players, waiting_team_first_player, waiting_formed_teams,
          waiting_judges, active_rooms, user_involvement, tasks, scheduled,
          detached, errors, used, limits, obs, last_failed, dialogue>>

-----------------------------------------------------------------------------
(* Program constants                                                       *)

MAX_PLAYERS_PER_TEAM == 2
TEAMS_PER_ROOM == 4
JUDGES_PER_ROOM == 1
PLAYERS_PER_ROOM == TEAMS_PER_ROOM * MAX_PLAYERS_PER_TEAM

Langs == {"en", "ru"}

None == 0

-----------------------------------------------------------------------------
(* Bounds of the model                                                     *)

\* participants of a run started from the constructor's state
ColdUsers == 4
\* teams already queued when a warm run starts
WarmTeams == 4
\* coroutines suspended at the same time
MaxTasks == 2
\* try_matchmake tasks created and not yet started, per language
MaxScheduled == 1
\* remove_user_from_queues calls by participants (/leave)
MaxLeaves == 1
\* sends that end in a permanent delivery error
MaxSendFailures == 1
\* create_google_meet_event calls that return no usable link
MaxCreateFailures == 1
\* joins attempted by participants who are occupied
MaxRejects == 1
\* coroutines suspended at the same time, and try_matchmake tasks not yet
\* started, in the runs in which the event loop is fair
FairTasks == 4
FairScheduled == 3

-----------------------------------------------------------------------------
(* Data                                                                    *)

\* user_involvement.get(id) is None: no entry for the id
NoRecord == [game_lang |-> "", role |-> "", status |-> "absent", room |-> 0]

\* {"game_lang": .., "role": .., "status": .., "ui_lang": ..}; ui_lang only picks
\* the language of message texts and is left out
Rec(lang, role, status) == [game_lang |-> lang, role |-> role, status |-> status, room |-> 0]

\* the entry ui_language_chosen_handler creates: {"ui_lang": ..}, no other key
UiOnlyRecord == [game_lang |-> "none", role |-> "none", status |-> "none", room |-> 0]

\* a frame of a coroutine suspended in (or below) a send.  u: the id the send
\* goes to; v: the other id the frame keeps; ref: the list object bound to
\* single_players_pool (0: the list waiting_single_players[lang] is bound to);
\* plist, idx, rid: the participants of a reservation, the one being notified
\* and the room's id.
Frame(pc, u, v, lang) ==
    [pc |-> pc, u |-> u, v |-> v, lang |-> lang, ref |-> 0, plist |-> <<>>, idx |-> 0, rid |-> 0]

\* the FSM state and data aiogram keeps for a user: state None and no data
\* after state.clear().  detected_telegram_lang, which only picks the language
\* of message texts, is left out
NoDialogue == [state |-> "none", ui_language |-> "none", game_language |-> "none"]

\* ls.get_message(lang, key): the texts of different keys and languages are
\* taken to differ (the locale files are not part of the sources at hand)
get_message(lang, key) == <<key, lang>>

\* Field said tells of the message the step's handler received, if the step
\* began with one: the sender, the text and the sender's FSM state then.
NoMessage == [u |-> 0, text |-> <<>>, state |-> ""]

\* the dict get_waiting_stats returns, with every count 0
NoStats ==
    [rooms_count |-> 0,
     en_single_players |-> 0, en_half_teams |-> 0, en_formed_teams |-> 0,
     en_formed_teams_players |-> 0, en_judges |-> 0,
     ru_single_players |-> 0, ru_half_teams |-> 0, ru_formed_teams |-> 0,
     ru_formed_teams_players |-> 0, ru_judges |-> 0,
     total_players_waiting |-> 0]

\* obs when the step neither paired two singles nor made a room check.
\* After a pairing (kind "pair"): waiting_single_players[lang] as the iteration
\* found it and the team it appended.  After a room check (kind "check"): the
\* pools, the registry and the rooms as lines 231-236 found them, whether the
\* pass reserved, whether the room was created, and the reservation rolled
\* back before (retry).
\* Field ended names the language of the try_matchmake that ran to its return
\* in the step ("" if none did).
\* Field began names the language of the try_matchmake that started in the step;
\* field rerun: it is the language of the try_matchmake that returned in the
\* step before.
\* Field online: the step was a call of get_waiting_stats; field stats: the
\* dict it returned.
\* Field rm tells of the call of remove_user_from_queues the step began with,
\* if it began with one (called): the participant, the status and the language
\* of the entry the call found ("absent" if none), whether the call came from
\* _safe_send_message, the value the call returns, the teammate it requeued, and
\* the program's state (after) when the call reached its first send or, sending
\* nothing, its return.
NoRemoval == [called |-> FALSE, u |-> 0, status |-> "", lang |-> "", fromErr |-> FALSE,
              ret |-> FALSE, mate |-> 0, after |-> <<>>]

NoObs == [kind |-> "none", lang |-> "", singles |-> <<>>, team |-> <<>>,
          teams |-> <<>>, judges |-> <<>>, inv |-> <<>>,
          rooms |-> <<>>, retry |-> <<>>, reserved |-> FALSE, created |-> FALSE,
          ended |-> "", began |-> "", rerun |-> FALSE, rm |-> NoRemoval,
          online |-> FALSE, stats |-> NoStats, said |-> NoMessage]

\* the frames of try_matchmake's team formation loop, which hold single_players_pool
InLoop(f) == f.pc \in {"pair1", "pair2"}

Min(S) == CHOOSE x \in S : \A y \in S : x <= y

RECURSIVE SeqWithout(_, _)
\* [u for u in list if u[0] != user_id]
SeqWithout(seq, x) ==
    IF seq = <<>> THEN <<>>
    ELSE IF Head(seq) = x THEN SeqWithout(Tail(seq), x)
         ELSE <<Head(seq)>> \o SeqWithout(Tail(seq), x)

\* list.pop(i)
SeqPop(seq, i) == SubSeq(seq, 1, i - 1) \o SubSeq(seq, i + 1, Len(seq))

-----------------------------------------------------------------------------
(* The running coroutine's view of the program: the program's fields, the  *)
(* other tasks, and its own stack.                                         *)

HasRecord(s, u) == s.inv[u].status # "absent"

\* a variant that takes a participant in a game for a free one
is_user_occupied_waiting(s, u) ==
    s.inv[u].status \in {"waiting_single", "waiting_team_partner", "waiting_as_team", "waiting_judge"}

is_user_occupied(s, u) == s.inv[u].status \notin {"absent", "none"}

is_user_in_waiting_queue(s, u) ==
    s.inv[u].status \in {"waiting_single", "waiting_team_partner", "waiting_as_team", "waiting_judge"}

\* self.user_involvement[id]["status"] = status, on an existing entry
SetStatus(s, u, status, room) ==
    [s EXCEPT !.inv[u].status = status, !.inv[u].room = room]

\* a variant in which no try_matchmake task is ever created
ScheduleNever(s, lang) == s

\* asyncio.create_task(self.try_matchmake(lang))
Schedule(s, lang) == [s EXCEPT !.sched[lang] = @ + 1]

\* an unhandled KeyError: the exception unwinds every frame of the task
Crash(s, line) == [s EXCEPT !.stack = <<>>, !.err = @ \cup {line}]

\* the coroutine awaits bot.send_message: it is suspended with this frame on top
Suspend(s, frame) == [s EXCEPT !.stack = <<frame>> \o @]

\* the list object single_players_pool is bound to
Pool(s, lang, ref) == IF ref = 0 THEN s.sp[lang] ELSE s.det[ref]

SetPool(s, lang, ref, list) ==
    IF ref = 0 THEN [s EXCEPT !.sp[lang] = list] ELSE [s EXCEPT !.det[ref] = list]

Aliased(f, lang) == InLoop(f) /\ f.lang = lang /\ f.ref = 0

Repoint(stack, lang, id) ==
    [i \in 1..Len(stack) |->
        IF Aliased(stack[i], lang) THEN [stack[i] EXCEPT !.ref = id] ELSE stack[i]]

\* self.waiting_single_players[lang] = [...]: the name is bound to a NEW list.
\* Every try_matchmake suspended in its loop keeps the old list object in
\* single_players_pool; the old object lives on for them.
RebindSingles(s, lang, list) ==
    LET held == (\E i \in 1..Len(s.stack) : Aliased(s.stack[i], lang))
                \/ (\E t \in s.tasks : \E i \in 1..Len(t) : Aliased(t[i], lang))
        id == Min((1..(Cardinality(DOMAIN s.det) + 1)) \ DOMAIN s.det)
    IN  IF held
        THEN [s EXCEPT !.det = [j \in DOMAIN s.det \cup {id} |->
                                    IF j = id THEN s.sp[lang] ELSE s.det[j]],
                       !.stack = Repoint(s.stack, lang, id),
                       !.tasks = {Repoint(t, lang, id) : t \in s.tasks},
                       !.sp[lang] = list]
        ELSE [s EXCEPT !.sp[lang] = list]

-----------------------------------------------------------------------------
(* try_matchmake                                                           *)

\* Variants of the definitions below that differ from the code; each property
\* of the room phase has to tell one of them from the code.
\* a threshold one team too high
EnoughForRoomStrict(teams, judges) ==
    Len(teams) > TEAMS_PER_ROOM /\ Len(judges) >= JUDGES_PER_ROOM

\* the newest teams instead of the oldest
SelectedTeamsNewest(teams) == SubSeq(teams, Len(teams) - TEAMS_PER_ROOM + 1, Len(teams))

\* a rollback that puts the teams back behind the others
RestoredTeamsBehind(selected, teams) == teams \o selected

\* a rollback that puts the judge back behind the others
RestoredJudgesBehind(judge, judges) == judges \o <<judge>>

\* len(available_teams) >= TEAMS_PER_ROOM and len(available_judges) >= JUDGES_PER_ROOM
EnoughForRoom(teams, judges) ==
    Len(teams) >= TEAMS_PER_ROOM /\ Len(judges) >= JUDGES_PER_ROOM

\* [available_teams.pop(0) for _ in range(TEAMS_PER_ROOM)]
SelectedTeams(teams) == SubSeq(teams, 1, TEAMS_PER_ROOM)

\* what the pops leave in available_teams
TeamsLeft(teams) == SubSeq(teams, TEAMS_PER_ROOM + 1, Len(teams))

\* available_judges.pop(0)
SelectedJudge(judges) == Head(judges)

JudgesLeft(judges) == Tail(judges)

\* selected_teams + self.waiting_formed_teams[lang]
RestoredTeams(selected, teams) == selected \o teams

\* [selected_judge] + self.waiting_judges[lang]
RestoredJudges(judge, judges) == <<judge>> \o judges

\* the two entries the loop pops: p1_info = pool.pop(0), p2_info = pool.pop(0)
PoppedPair(pool) == <<pool[1], pool[2]>>

RECURSIVE Members(_)
\* [p[0] for team in selected_teams for p in team]
Members(teams) ==
    IF teams = <<>> THEN <<>> ELSE <<Head(teams)[1], Head(teams)[2]>> \o Members(Tail(teams))

\* the judge, then the members team by team: the order of the room-ready
\* notifications and of all_failed_participants_ids
Participants(judge, teams) == <<judge>> \o Members(teams)

\* room_id = f"room_{lang}_{event_id[:8]}": the provider's event ids are taken
\* to differ in their first 8 characters; the n-th room created gets id n
NewRoomId(s) == Len(s.rooms) + 1

\* meet_link = created_event['conferenceData']['entryPoints'][0]['uri']: the
\* link of the n-th event the provider creates
MeetLink(n) == n

\* a variant that keeps only the newest room
active_rooms_only_newest(rooms, room) == <<room>>

\* self.active_rooms.append(new_room)
active_rooms_append(rooms, room) == Append(rooms, room)

\* a variant in which a pass that rolled back starts another pass
RolledBackRetries(s, lang) == Schedule(s, lang)

\* lines 314-319: the failure notices are sent, the pass returns
RolledBack(s, lang) == s

\* a variant in which a pass that finds too few participants starts another
NotEnoughRetriggers(s, lang) == Schedule(s, lang)

\* lines 320-321: not enough participants, the pass logs it and returns
NotEnough(s, lang) == s

\* lines 231-321, entered when the loop's condition is false
RoomPhase(s, f) ==
    LET lang == f.lang
        teams == s.ft[lang]
        judges == s.jd[lang]
        ready == EnoughForRoom(teams, judges)
        seen == [kind |-> "check", lang |-> lang, singles |-> <<>>, team |-> <<>>,
                 teams |-> teams, judges |-> judges,
                 inv |-> IF ready THEN s.inv ELSE <<>>,
                 rooms |-> IF ready THEN s.rooms ELSE <<>>,
                 retry |-> IF ready THEN s.failed[lang] ELSE <<>>,
                 reserved |-> ready, created |-> ready /\ s.ok,
                 ended |-> IF ready THEN "" ELSE lang,
                 began |-> s.obs.began, rerun |-> s.obs.rerun,
                 online |-> FALSE, stats |-> NoStats, said |-> s.obs.said,
                 rm |-> s.obs.rm]
        s0 == [s EXCEPT !.obs = seen]
    IN  IF ~ready THEN NotEnough(s0, lang)
        ELSE LET selected == SelectedTeams(teams)
                 judge == SelectedJudge(judges)
                 s1 == [s0 EXCEPT !.ft[lang] = TeamsLeft(teams), !.jd[lang] = JudgesLeft(judges)]
                 plist == Participants(judge, selected)
             IN  IF s.ok
                 THEN LET rid == NewRoomId(s1)
                          room == [id |-> rid, language |-> lang, judge |-> judge, teams |-> selected,
                                   meet_link |-> MeetLink(rid)]
                          s2 == [s1 EXCEPT !.rooms = active_rooms_append(@, room), !.failed[lang] = <<>>]
                      IN  Suspend(s2, [f EXCEPT !.pc = "room", !.u = plist[1], !.v = None, !.ref = 0,
                                                !.plist = plist, !.idx = 1, !.rid = rid])
                 ELSE LET s2 == [s1 EXCEPT !.ft[lang] = RestoredTeams(selected, s1.ft[lang]),
                                           !.jd[lang] = RestoredJudges(judge, s1.jd[lang]),
                                           !.used.cfails = @ + 1, !.failed[lang] = plist]
                      IN  Suspend(s2, [f EXCEPT !.pc = "meet_failed", !.u = plist[1], !.v = None, !.ref = 0,
                                                !.plist = plist, !.idx = 1, !.rid = 0])

\* a variant that pairs singles only when more than a pair of them waits
EnoughSinglesStrict(pool) == Len(pool) > MAX_PLAYERS_PER_TEAM

\* while len(single_players_pool) >= self.MAX_PLAYERS_PER_TEAM (line 201)
EnoughSingles(pool) == Len(pool) >= MAX_PLAYERS_PER_TEAM

\* lines 201-226: the loop's condition and one iteration up to its first send
LoopHead(s, f) ==
    LET lang == f.lang
        pool == Pool(s, lang, f.ref)
    IN  IF EnoughSingles(pool)
        THEN LET p1 == PoppedPair(pool)[1]
                 p2 == PoppedPair(pool)[2]
                 s1 == SetPool(s, lang, f.ref, SubSeq(pool, 3, Len(pool)))
                 s2 == [s1 EXCEPT !.ft[lang] = Append(@, <<p1, p2>>),
                                  !.obs = [NoObs EXCEPT !.kind = "pair", !.lang = lang,
                                                        !.singles = s.sp[lang],
                                                        !.team = <<p1, p2>>,
                                                        !.began = s.obs.began,
                                                        !.rerun = s.obs.rerun,
                                                        !.rm = s.obs.rm]]
             IN  IF ~HasRecord(s2, p1) THEN Crash(s2, 211)
                 ELSE LET s3 == SetStatus(s2, p1, "waiting_as_team", 0)
                      IN  IF ~HasRecord(s3, p2) THEN Crash(s3, 212)
                          ELSE Suspend(SetStatus(s3, p2, "waiting_as_team", 0),
                                       [f EXCEPT !.pc = "pair1", !.u = p1, !.v = p2])
        ELSE RoomPhase(s, f)

\* the line of self.user_involvement[..]["status"] = f"in_game_{room_id}" for
\* the idx-th participant
InGameLine(idx) == IF idx = 1 THEN 278 ELSE IF idx % 2 = 0 THEN 296 ELSE 306

-----------------------------------------------------------------------------
(* Returning, and continuing after a send                                  *)

RECURSIVE Return(_), AfterSend(_, _)

\* the first team of the list that holds the id (lines 371-380), 0 if none
TeamIndexOf(teams, u) ==
    LET hits == {i \in 1..Len(teams) : teams[i][1] = u \/ teams[i][2] = u}
    IN  IF hits = {} THEN 0 ELSE Min(hits)

\* teammate_info_tuple: p2 when the id is p1, else p1
TeammateIn(team, u) == IF team[1] = u THEN team[2] ELSE team[1]

\* a variant that drops the teammate of a leaving team player
RequeuedNever(list, mate) == list

\* a variant that requeues the teammate ahead of the waiting singles
RequeuedFirst(list, mate) == <<mate>> \o list

\* self.waiting_single_players[game_lang].append(teammate_info_tuple)
Requeued(list, mate) == Append(list, mate)

\* a variant that leaves the pending partner in place
waiting_team_first_player_kept(s, lang) == s

\* self.waiting_team_first_player[game_lang] = None (line 366)
waiting_team_first_player_cleared(s, lang) == [s EXCEPT !.fp[lang] = None]

\* lines 358-397: the removal from the pool the status names.
\* Gives the new state, removed_flag and the teammate to notify (or None).
RemoveFromPool(s, u, lang, status) ==
    CASE status = "waiting_single" ->
            [s |-> RebindSingles(s, lang, SeqWithout(s.sp[lang], u)), removed |-> TRUE, mate |-> None]
      [] status = "waiting_team_partner" ->
            IF s.fp[lang] # None /\ s.fp[lang] = u
            THEN [s |-> waiting_team_first_player_cleared(s, lang), removed |-> TRUE, mate |-> None]
            ELSE [s |-> s, removed |-> FALSE, mate |-> None]
      [] status = "waiting_as_team" ->
            LET i == TeamIndexOf(s.ft[lang], u)
            IN  IF i = 0 THEN [s |-> s, removed |-> FALSE, mate |-> None]
                ELSE LET mate == TeammateIn(s.ft[lang][i], u)
                         s1 == [s EXCEPT !.ft[lang] = SeqPop(@, i)]
                     IN  IF HasRecord(s1, mate)
                         THEN [s |-> [SetStatus(s1, mate, "waiting_single", 0)
                                        EXCEPT !.sp[lang] = Requeued(@, mate)],
                               removed |-> TRUE, mate |-> mate]
                         ELSE [s |-> s1, removed |-> TRUE, mate |-> None]
      [] status = "waiting_judge" ->
            [s |-> [s EXCEPT !.jd[lang] = SeqWithout(@, u)], removed |-> TRUE, mate |-> None]
      [] OTHER -> [s |-> s, removed |-> FALSE, mate |-> None]

\* history: a participant of a rolled-back reservation has been removed
Departed(s, u) ==
    [s EXCEPT !.failed = [l \in Langs |->
        IF \E i \in 1..Len(s.failed[l]) : s.failed[l][i] = u THEN <<>> ELSE s.failed[l]]]

\* a variant in which every participant is taken to have a record
NotFoundNever(rec) == FALSE

\* if not involvement (line 325)
NotFound(rec) == rec.status = "absent"

\* a variant in which no status counts as being in a game
StatusInGameNever(status) == FALSE

\* str(status).startswith("in_game_")
StatusInGame(status) == status = "in_game"

\* the pools, the registry, the rooms and the passes scheduled
ViewOf(s) == [sp |-> s.sp, fp |-> s.fp, ft |-> s.ft, jd |-> s.jd, inv |-> s.inv,
              rooms |-> s.rooms, sched |-> s.sched]

\* history: what the call of remove_user_from_queues did, s being the state
\* when it reaches its first send or its return
Noted(s, u, rec, fromErr, ret, mate) ==
    [s EXCEPT !.obs.rm = [called |-> TRUE, u |-> u, status |-> rec.status,
                          lang |-> rec.game_lang, fromErr |-> fromErr, ret |-> ret,
                          mate |-> mate, after |-> ViewOf(s)]]

\* remove_user_from_queues(user_id, called_from_send_error), up to its first
\* send or, when it sends nothing, through its return to the caller
remove_user_from_queues(s, u, fromErr) ==
    LET rec == s.inv[u]
        popped == [s EXCEPT !.inv[u] = NoRecord]
        N(x, ret, mate) == Noted(x, u, rec, fromErr, ret, mate)
    IN  IF NotFound(rec)
        THEN IF fromErr THEN Return(N(s, FALSE, None))
             ELSE Suspend(N(s, FALSE, None), Frame("rm_notfound", u, None, ""))
        ELSE IF StatusInGame(rec.status)
        THEN IF fromErr THEN Return(N(s, FALSE, None))
             ELSE Suspend(N(s, FALSE, None), Frame("rm_ingame", u, None, ""))
        ELSE IF rec.game_lang = "none"
        THEN IF fromErr THEN Return(N(popped, FALSE, None))
             ELSE Suspend(N(popped, FALSE, None), Frame("rm_notremoved", u, None, ""))
        ELSE LET r == RemoveFromPool(popped, u, rec.game_lang, rec.status)
                 gone == Departed(r.s, u)
             IN  IF r.removed
                 THEN IF ~fromErr
                      THEN Suspend(N(gone, TRUE, r.mate), Frame("rm_left", u, r.mate, rec.game_lang))
                      ELSE IF r.mate # None
                           THEN Suspend(N(gone, TRUE, r.mate),
                                        Frame("rm_mate", r.mate, u, rec.game_lang))
                           ELSE Return(N(Schedule(gone, rec.game_lang), TRUE, None))
                 ELSE IF fromErr THEN Return(N(r.s, FALSE, None))
                      ELSE Suspend(N(r.s, FALSE, None),
                                   Frame("rm_notremoved", u, None, rec.game_lang))

\* the function on top has returned: the frame below was waiting for it inside
\* _safe_send_message, whose send is now over; an empty stack ends the task
Return(s) ==
    IF s.stack = <<>> THEN s
    ELSE AfterSend([s EXCEPT !.stack = Tail(@)], Head(s.stack))

\* frame f's send is over (delivered, failed for a passing reason, or failed for
\* good and the removal it called has returned): f's code runs on to its next
\* send or its end.  s.stack holds the frames below f.
AfterSend(s, f) ==
    CASE f.pc \in {"join_reject", "self_team", "team_first",
                   "rm_notfound", "rm_ingame", "rm_notremoved"} -> Return(s)
      [] f.pc \in {"single_wait", "judge_wait", "team_user", "rm_mate"} ->
            Return(Schedule(s, f.lang))
      [] f.pc = "team_mate" -> Suspend(s, [f EXCEPT !.pc = "team_user", !.u = f.v, !.v = f.u])
      [] f.pc = "rm_left" ->
            IF f.v # None THEN Suspend(s, Frame("rm_mate", f.v, f.u, f.lang))
            ELSE Return(Schedule(s, f.lang))
      [] f.pc = "pair1" -> Suspend(s, [f EXCEPT !.pc = "pair2", !.u = f.v, !.v = f.u])
      [] f.pc = "pair2" -> LoopHead(s, [f EXCEPT !.pc = "loop", !.u = None, !.v = None])
      [] f.pc = "room" ->
            IF ~HasRecord(s, f.u) THEN Crash(s, InGameLine(f.idx))
            ELSE LET s1 == SetStatus(s, f.u, "in_game", f.rid)
                 IN  IF f.idx < Len(f.plist)
                     THEN Suspend(s1, [f EXCEPT !.idx = @ + 1, !.u = f.plist[f.idx + 1]])
                     ELSE Return([Schedule(s1, f.lang) EXCEPT !.obs.ended = f.lang])
      [] f.pc = "meet_failed" ->
            IF f.idx < Len(f.plist)
            THEN Suspend(s, [f EXCEPT !.idx = @ + 1, !.u = f.plist[f.idx + 1]])
            ELSE Return([RolledBack(s, f.lang) EXCEPT !.obs.ended = f.lang])
      [] f.pc \in {"role_chosen", "team_type_chosen"} ->
            \* the join has returned (success or not): await state.clear()
            Return([s EXCEPT !.dlg[f.u] = NoDialogue])

\* _safe_send_message when bot.send_message raises "bot was blocked" / "user is
\* deactivated" / "chat not found": s.stack still holds the sending frame
SendFailedFor(s, f) ==
    remove_user_from_queues([s EXCEPT !.used.fails = @ + 1], f.u, TRUE)

-----------------------------------------------------------------------------
(* The join operations, up to their first send                             *)

\* the join of an occupied participant: the "already_in_queue" message, return False
Rejected(s, u, lang) ==
    Suspend([s EXCEPT !.used.rejects = @ + 1], Frame("join_reject", u, None, lang))

\* a variant that puts the new single ahead of the waiting ones
add_player_single_first(s, u, lang) ==
    IF is_user_occupied(s, u) THEN Rejected(s, u, lang)
    ELSE Suspend([s EXCEPT !.sp[lang] = <<u>> \o @,
                           !.inv[u] = Rec(lang, "player", "waiting_single")],
                 Frame("single_wait", u, None, lang))

add_player_single(s, u, lang) ==
    IF is_user_occupied(s, u) THEN Rejected(s, u, lang)
    ELSE Suspend([s EXCEPT !.sp[lang] = Append(@, u),
                           !.inv[u] = Rec(lang, "player", "waiting_single")],
                 Frame("single_wait", u, None, lang))

add_player_team(s, u, lang) ==
    IF is_user_occupied(s, u) THEN Rejected(s, u, lang)
    ELSE LET first == s.fp[lang]
         IN  IF first # None
             THEN IF first = u THEN Suspend(s, Frame("self_team", u, None, lang))
                  ELSE LET s1 == [s EXCEPT !.ft[lang] = Append(@, <<first, u>>),
                                           !.fp[lang] = None]
                       IN  IF ~HasRecord(s1, first) THEN Crash(s1, 112)
                           ELSE Suspend([SetStatus(s1, first, "waiting_as_team", 0)
                                           EXCEPT !.inv[u] = Rec(lang, "player", "waiting_as_team")],
                                        Frame("team_mate", first, u, lang))
             ELSE Suspend([s EXCEPT !.fp[lang] = u,
                                    !.inv[u] = Rec(lang, "player", "waiting_team_partner")],
                          Frame("team_first", u, None, lang))

add_judge(s, u, lang) ==
    IF is_user_occupied(s, u) THEN Rejected(s, u, lang)
    ELSE Suspend([s EXCEPT !.jd[lang] = Append(@, u),
                           !.inv[u] = Rec(lang, "judge", "waiting_judge")],
                 Frame("judge_wait", u, None, lang))

\* a variant that counts a waiting team as one player
get_waiting_stats_teams_once(s) ==
    LET half(l) == IF s.fp[l] # None THEN 1 ELSE 0
    IN  [rooms_count |-> Len(s.rooms),
         en_single_players |-> Len(s.sp["en"]), en_half_teams |-> half("en"),
         en_formed_teams |-> Len(s.ft["en"]),
         en_formed_teams_players |-> Len(s.ft["en"]) * MAX_PLAYERS_PER_TEAM,
         en_judges |-> Len(s.jd["en"]),
         ru_single_players |-> Len(s.sp["ru"]), ru_half_teams |-> half("ru"),
         ru_formed_teams |-> Len(s.ft["ru"]),
         ru_formed_teams_players |-> Len(s.ft["ru"]) * MAX_PLAYERS_PER_TEAM,
         ru_judges |-> Len(s.jd["ru"]),
         total_players_waiting |->
             (Len(s.sp["en"]) + half("en") + Len(s.ft["en"]))
             + (Len(s.sp["ru"]) + half("ru") + Len(s.ft["ru"]))]

\* lines 176-195
get_waiting_stats(s) ==
    LET stats ==
            [rooms_count |-> Len(s.rooms),
             en_single_players |-> Len(s.sp["en"]),
             en_half_teams |-> IF s.fp["en"] # None THEN 1 ELSE 0,
             en_formed_teams |-> Len(s.ft["en"]),
             en_formed_teams_players |-> Len(s.ft["en"]) * MAX_PLAYERS_PER_TEAM,
             en_judges |-> Len(s.jd["en"]),
             ru_single_players |-> Len(s.sp["ru"]),
             ru_half_teams |-> IF s.fp["ru"] # None THEN 1 ELSE 0,
             ru_formed_teams |-> Len(s.ft["ru"]),
             ru_formed_teams_players |-> Len(s.ft["ru"]) * MAX_PLAYERS_PER_TEAM,
             ru_judges |-> Len(s.jd["ru"])]
        total_players_waiting_en ==
            stats.en_single_players + stats.en_half_teams + stats.en_formed_teams_players
        total_players_waiting_ru ==
            stats.ru_single_players + stats.ru_half_teams + stats.ru_formed_teams_players
    IN  [rooms_count |-> stats.rooms_count,
         en_single_players |-> stats.en_single_players,
         en_half_teams |-> stats.en_half_teams,
         en_formed_teams |-> stats.en_formed_teams,
         en_formed_teams_players |-> stats.en_formed_teams_players,
         en_judges |-> stats.en_judges,
         ru_single_players |-> stats.ru_single_players,
         ru_half_teams |-> stats.ru_half_teams,
         ru_formed_teams |-> stats.ru_formed_teams,
         ru_formed_teams_players |-> stats.ru_formed_teams_players,
         ru_judges |-> stats.ru_judges,
         total_players_waiting |-> total_players_waiting_en + total_players_waiting_ru]

\* cmd_online: stats_data = game_manager.get_waiting_stats()
cmd_online(s) == [s EXCEPT !.obs.online = TRUE, !.obs.stats = get_waiting_stats(s)]

\* game_manager.user_involvement.setdefault(user_id, {}).update({"ui_lang": ..})
ui_language_chosen(s, u) ==
    IF HasRecord(s, u) THEN s ELSE [s EXCEPT !.inv[u] = UiOnlyRecord]

\* the language a reply to the language keyboard names ("none": neither button)
ChosenLanguage(text) ==
    IF text = get_message("en", "lang_en") THEN "en"
    ELSE IF text = get_message("ru", "lang_ru") THEN "ru"
    ELSE "none"

\* cmd_start: state.clear(), the greeting, state choosing_ui_language
cmd_start(s, u) ==
    [s EXCEPT !.dlg[u] = [NoDialogue EXCEPT !.state = "choosing_ui_language"]]

\* start_game_setup_flow (/play or the play button, no state active)
start_game_setup_flow(s, u) ==
    IF s.dlg[u].state \notin {"none", "choosing_ui_language"} THEN s
    ELSE IF is_user_occupied(s, u) THEN s
    ELSE IF s.dlg[u].ui_language = "none"
    THEN [s EXCEPT !.dlg[u].state = "choosing_ui_language"]
    ELSE [s EXCEPT !.dlg[u].state = "choosing_game_language"]

\* ui_language_chosen_handler (state choosing_ui_language)
ui_language_chosen_handler(s, u, text) ==
    LET code == ChosenLanguage(text)
    IN  IF code # "none"
        THEN [ui_language_chosen(s, u) EXCEPT !.dlg[u].ui_language = code, !.dlg[u].state = "none"]
        ELSE s

\* game_language_chosen (state choosing_game_language)
game_language_chosen(s, u, text) ==
    LET code == ChosenLanguage(text)
    IN  IF code # "none"
        THEN [s EXCEPT !.dlg[u].game_language = code, !.dlg[u].state = "choosing_role"]
        ELSE s

\* role_chosen (state choosing_role); the handler's own answers are taken as
\* delivered at once, the sends of the join suspend it
role_chosen(s, u, text) ==
    LET d == s.dlg[u]
        lang == d.game_language
    IN  IF d.ui_language = "none" \/ lang = "none"
        THEN [s EXCEPT !.dlg[u] = NoDialogue]
        ELSE IF text = get_message(lang, "role_player")
        THEN [s EXCEPT !.dlg[u].state = "choosing_team_type"]
        ELSE IF text = get_message(lang, "role_judge")
        THEN add_judge([s EXCEPT !.stack = <<Frame("role_chosen", u, None, lang)>>], u, lang)
        ELSE s

\* team_type_chosen (state choosing_team_type): success stays False on a reply
\* that is neither button, and both branches of the final if clear the state
team_type_chosen(s, u, text) ==
    LET d == s.dlg[u]
        lang == d.game_language
        waiting == [s EXCEPT !.stack = <<Frame("team_type_chosen", u, None, lang)>>]
    IN  IF d.ui_language = "none" \/ lang = "none"
        THEN [s EXCEPT !.dlg[u] = NoDialogue]
        ELSE IF text = get_message(lang, "team_type_single")
        THEN add_player_single(waiting, u, lang)
        ELSE IF text = get_message(lang, "team_type_team")
        THEN add_player_team(waiting, u, lang)
        ELSE [s EXCEPT !.dlg[u] = NoDialogue]

\* the dispatcher (main.py 49-50): game_setup_router's handlers come first and
\* take any text in their states; then common_router's, in the order cmd_start,
\* ui_language_chosen_handler, cmd_play_command, and handle_main_menu_buttons,
\* which answers any other text with the main menu
Dispatch(s, u, text) ==
    LET state == s.dlg[u].state
    IN  CASE state = "choosing_game_language" -> game_language_chosen(s, u, text)
          [] state = "choosing_role" -> role_chosen(s, u, text)
          [] state = "choosing_team_type" -> team_type_chosen(s, u, text)
          [] OTHER ->
                IF text = <<"/start", "">> THEN cmd_start(s, u)
                ELSE IF state = "choosing_ui_language" THEN ui_language_chosen_handler(s, u, text)
                ELSE IF text = <<"/play", "">> THEN start_game_setup_flow(s, u)
                ELSE s

-----------------------------------------------------------------------------
(* Steps                                                                   *)

Users == 1..limits.users

\* the program as the coroutine that runs in this step finds it; ok: whether
\* create_google_meet_event, if this step calls it, returns a usable link
Cur(ok) ==
    [sp |-> waiting_single_players, fp |-> waiting_team_first_player,
     ft |-> waiting_formed_teams, jd |-> waiting_judges, rooms |-> active_rooms,
     inv |-> user_involvement, tasks |-> tasks, sched |-> scheduled, det |-> detached,
     err |-> errors, used |-> used, stack |-> <<>>, ok |-> ok, obs |-> NoObs,
     failed |-> last_failed, dlg |-> dialogue]

\* the list objects some suspended try_matchmake still holds
FramesOf(ts) == UNION {{t[i] : i \in 1..Len(t)} : t \in ts}

HeldRefs(ts) == {f.ref : f \in {g \in FramesOf(ts) : InLoop(g)}} \ {0}

TasksAfter(s) == s.tasks \cup (IF s.stack = <<>> THEN {} ELSE {s.stack})

\* the step's result becomes the next state, provided it stays within the run's limits
Commit(s) ==
    LET ts == TasksAfter(s)
        held == HeldRefs(ts)
    IN  /\ Cardinality(ts) <= limits.tasks
        /\ \A l \in Langs : s.sched[l] <= limits.sched
        /\ s.used.leaves <= limits.leaves
        /\ s.used.fails <= limits.fails
        /\ s.used.cfails <= limits.cfails
        /\ s.used.rejects <= limits.rejects
        /\ waiting_single_players' = s.sp
        /\ waiting_team_first_player' = s.fp
        /\ waiting_formed_teams' = s.ft
        /\ waiting_judges' = s.jd
        /\ active_rooms' = s.rooms
        /\ user_involvement' = s.inv
        /\ tasks' = ts
        /\ scheduled' = s.sched
        /\ detached' = [j \in DOMAIN s.det \cap held |-> s.det[j]]
        /\ errors' = s.err
        /\ used' = s.used
        /\ obs' = s.obs
        /\ last_failed' = s.failed
        /\ dialogue' = s.dlg
        /\ UNCHANGED limits

\* A run has a cast: limits says what each participant may do in it, and how
\* often in total.  A participant's message reaches a handler only while
\* fewer than limits.tasks coroutines are suspended.
Arrives == Cardinality(tasks) < limits.tasks

\* team_type_chosen -> add_player_single
AddPlayerSingle(u, lang) ==
    /\ Arrives
    /\ <<"single", lang>> \in limits.joins[u]
    /\ Commit(add_player_single(Cur(TRUE), u, lang))

\* team_type_chosen -> add_player_team
AddPlayerTeam(u, lang) ==
    /\ Arrives
    /\ <<"team", lang>> \in limits.joins[u]
    /\ Commit(add_player_team(Cur(TRUE), u, lang))

\* role_chosen -> add_judge
AddJudge(u, lang) ==
    /\ Arrives
    /\ <<"judge", lang>> \in limits.joins[u]
    /\ Commit(add_judge(Cur(TRUE), u, lang))

\* cmd_leave_command -> remove_user_from_queues(user_id)
Leave(u) ==
    /\ Arrives
    /\ u \in limits.leavers
    /\ used.leaves < limits.leaves
    /\ Commit(remove_user_from_queues([Cur(TRUE) EXCEPT !.used.leaves = @ + 1], u, FALSE))

\* ui_language_chosen_handler, for a participant without an entry (with an
\* entry only its ui_lang changes)
UiLanguageChosen(u) ==
    /\ u \in limits.choosers
    /\ ~HasRecord(Cur(TRUE), u)
    /\ Commit(ui_language_chosen(Cur(TRUE), u))

\* a task made by asyncio.create_task(self.try_matchmake(lang)) starts
TryMatchmake(lang, ok) ==
    /\ scheduled[lang] > 0
    /\ Commit(LoopHead([Cur(ok) EXCEPT !.sched[lang] = @ - 1, !.obs.began = lang,
                                        !.obs.rerun = (obs.ended = lang)],
                        Frame("loop", None, None, lang)))

\* the send task t is suspended in is delivered (or fails for a reason
\* _safe_send_message only logs)
SendDone(t, ok) ==
    /\ t \in tasks
    /\ Commit(AfterSend([Cur(ok) EXCEPT !.tasks = @ \ {t}, !.stack = Tail(t)], Head(t)))

\* the send task t is suspended in fails for good: its addressee has blocked
\* the bot, is deactivated, or the chat is not found
SendFailed(t, ok) ==
    /\ t \in tasks
    /\ Head(t).u \in limits.unreachable
    /\ used.fails < limits.fails
    /\ Commit(SendFailedFor([Cur(ok) EXCEPT !.tasks = @ \ {t}, !.stack = t], Head(t)))

Next ==
    \/ \E u \in Users, lang \in Langs : AddPlayerSingle(u, lang)
    \/ \E u \in Users, lang \in Langs : AddPlayerTeam(u, lang)
    \/ \E u \in Users, lang \in Langs : AddJudge(u, lang)
    \/ \E u \in Users : Leave(u)
    \/ \E u \in Users : UiLanguageChosen(u)
    \/ \E lang \in Langs, ok \in BOOLEAN : TryMatchmake(lang, ok)
    \/ \E t \in tasks, ok \in BOOLEAN : SendDone(t, ok)
    \/ \E t \in tasks, ok \in BOOLEAN : SendFailed(t, ok)

-----------------------------------------------------------------------------
(* Initial states                                                          *)

NoneUsed == [leaves |-> 0, fails |-> 0, cfails |-> 0, rejects |-> 0]

\* GameManager.__init__
Constructed ==
    /\ waiting_single_players = [l \in Langs |-> <<>>]
    /\ waiting_team_first_player = [l \in Langs |-> None]
    /\ waiting_formed_teams = [l \in Langs |-> <<>>]
    /\ waiting_judges = [l \in Langs |-> <<>>]
    /\ active_rooms = <<>>
    /\ user_involvement = [u \in Users |-> NoRecord]
    /\ tasks = {}
    /\ scheduled = [l \in Langs |-> 0]
    /\ detached = <<>>
    /\ errors = {}
    /\ used = NoneUsed
    /\ obs = NoObs
    /\ last_failed = [l \in Langs |-> <<>>]
    /\ dialogue = [u \in Users |-> NoDialogue]


\* the cast of a run from the constructor: four participants join English;
\* 1 and 2 as singles or as a team, 3 as a single, 4 as a single or as a judge;
\* 3 may leave, 1 may block the bot, 4 may choose the interface language first
ColdJoins(u) ==
    CASE u \in {1, 2} -> {<<"single", "en">>, <<"team", "en">>}
      [] u = 3 -> {<<"single", "en">>}
      [] OTHER -> {<<"single", "en">>, <<"judge", "en">>}

Init ==
    /\ limits = [users |-> ColdUsers,
                 joins |-> [u \in 1..ColdUsers |-> ColdJoins(u)],
                 leavers |-> {3}, unreachable |-> {1}, choosers |-> {ColdUsers},
                 tasks |-> MaxTasks, sched |-> MaxScheduled,
                 leaves |-> MaxLeaves, fails |-> MaxSendFailures,
                 cfails |-> MaxCreateFailures, rejects |-> MaxRejects]
    /\ Constructed

Spec == Init /\ [][Next]_vars

\* A run that starts with WarmTeams teams waiting for English and nothing in
\* flight: the state after add_player_team by participants 1, 2, ..., in this
\* order, once their messages are delivered and the passes they started are over.
QueuedTeams(n) == [i \in 1..n |-> <<2 * i - 1, 2 * i>>]

WarmUsers == 2 * WarmTeams + 4

\* the cast: two more players who join as a team, two judges, and of the
\* waiting ones participant 1, who may leave, and participant 2, who may block
\* the bot and may ask to join again
WarmJoins(u) ==
    IF u \in {2 * WarmTeams + 1, 2 * WarmTeams + 2} THEN {<<"team", "en">>}
    ELSE IF u \in {2 * WarmTeams + 3, 2 * WarmTeams + 4} THEN {<<"judge", "en">>}
    ELSE IF u = 2 THEN {<<"single", "en">>}
    ELSE {}

InitRoom ==
    /\ limits = [users |-> WarmUsers,
                 joins |-> [u \in 1..WarmUsers |-> WarmJoins(u)],
                 leavers |-> {1}, unreachable |-> {2},
                 choosers |-> {WarmUsers},
                 tasks |-> MaxTasks, sched |-> MaxScheduled,
                 leaves |-> MaxLeaves, fails |-> MaxSendFailures,
                 cfails |-> MaxCreateFailures, rejects |-> MaxRejects]
    /\ waiting_single_players = [l \in Langs |-> <<>>]
    /\ waiting_team_first_player = [l \in Langs |-> None]
    /\ waiting_formed_teams = [l \in Langs |-> IF l = "en" THEN QueuedTeams(WarmTeams) ELSE <<>>]
    /\ waiting_judges = [l \in Langs |-> <<>>]
    /\ active_rooms = <<>>
    /\ user_involvement = [u \in Users |->
            IF u <= 2 * WarmTeams THEN Rec("en", "player", "waiting_as_team") ELSE NoRecord]
    /\ tasks = {}
    /\ scheduled = [l \in Langs |-> 0]
    /\ detached = <<>>
    /\ errors = {}
    /\ used = NoneUsed
    /\ obs = NoObs
    /\ last_failed = [l \in Langs |-> <<>>]
    /\ dialogue = [u \in Users |-> NoDialogue]

SpecRoom == InitRoom /\ [][Next]_vars

\* A run that starts with enough teams for two rooms waiting for English and
\* nothing in flight.  The cast: one judge, who may choose the interface
\* language first and may leave; of the waiting ones participant 1, who may ask
\* to join again and may block the bot.
Judge == 2 * (2 * TEAMS_PER_ROOM) + 1

InitTwoRooms ==
    /\ limits = [users |-> Judge,
                 joins |-> [u \in 1..Judge |->
                               IF u = Judge THEN {<<"judge", "en">>}
                               ELSE IF u = 1 THEN {<<"single", "en">>, <<"team", "en">>}
                               ELSE {}],
                 leavers |-> {Judge}, unreachable |-> {1}, choosers |-> {Judge},
                 tasks |-> MaxTasks, sched |-> MaxScheduled,
                 leaves |-> MaxLeaves, fails |-> MaxSendFailures,
                 cfails |-> MaxCreateFailures, rejects |-> MaxRejects]
    /\ waiting_single_players = [l \in Langs |-> <<>>]
    /\ waiting_team_first_player = [l \in Langs |-> None]
    /\ waiting_formed_teams =
          [l \in Langs |-> IF l = "en" THEN QueuedTeams(2 * TEAMS_PER_ROOM) ELSE <<>>]
    /\ waiting_judges = [l \in Langs |-> <<>>]
    /\ active_rooms = <<>>
    /\ user_involvement = [u \in Users |->
            IF u < Judge THEN Rec("en", "player", "waiting_as_team") ELSE NoRecord]
    /\ tasks = {}
    /\ scheduled = [l \in Langs |-> 0]
    /\ detached = <<>>
    /\ errors = {}
    /\ used = NoneUsed
    /\ obs = NoObs
    /\ last_failed = [l \in Langs |-> <<>>]
    /\ dialogue = [u \in Users |-> NoDialogue]

SpecTwoRooms == InitTwoRooms /\ [][Next]_vars

\* A run that starts with every pool of English in use and nothing in flight:
\* the teams (1,2) and (3,4), the single 5, the judge 6 and 7 waiting for a
\* partner, the state after these joins in this order.  The cast: 8 joins as
\* a team player (of English or of Russian), 9 as a single or as a judge after
\* choosing the interface language or not; 1, 4, 5 and 6 may leave, 2 and 7 may
\* block the bot.
QueueJoins(u) ==
    CASE u = 8 -> {<<"team", "en">>, <<"team", "ru">>}
      [] u = 9 -> {<<"single", "en">>, <<"judge", "en">>}
      [] OTHER -> {}

InitQueue ==
    /\ limits = [users |-> 9,
                 joins |-> [u \in 1..9 |-> QueueJoins(u)],
                 leavers |-> {1, 4, 5, 6}, unreachable |-> {2, 7}, choosers |-> {9},
                 tasks |-> MaxTasks, sched |-> MaxScheduled,
                 leaves |-> MaxLeaves + 1, fails |-> MaxSendFailures,
                 cfails |-> MaxCreateFailures, rejects |-> MaxRejects]
    /\ waiting_single_players = [l \in Langs |-> IF l = "en" THEN <<5>> ELSE <<>>]
    /\ waiting_team_first_player = [l \in Langs |-> IF l = "en" THEN 7 ELSE None]
    /\ waiting_formed_teams = [l \in Langs |-> IF l = "en" THEN QueuedTeams(2) ELSE <<>>]
    /\ waiting_judges = [l \in Langs |-> IF l = "en" THEN <<6>> ELSE <<>>]
    /\ active_rooms = <<>>
    /\ user_involvement = [u \in Users |->
            CASE u <= 4 -> Rec("en", "player", "waiting_as_team")
              [] u = 5 -> Rec("en", "player", "waiting_single")
              [] u = 6 -> Rec("en", "judge", "waiting_judge")
              [] u = 7 -> Rec("en", "player", "waiting_team_partner")
              [] OTHER -> NoRecord]
    /\ tasks = {}
    /\ scheduled = [l \in Langs |-> 0]
    /\ detached = <<>>
    /\ errors = {}
    /\ used = NoneUsed
    /\ obs = NoObs
    /\ last_failed = [l \in Langs |-> <<>>]
    /\ dialogue = [u \in Users |-> NoDialogue]

SpecQueue == InitQueue /\ [][Next]_vars

\* A run in which a participant comes back.  It starts when 1 and 2 have joined
\* English as singles and the pass that paired them is suspended in its first
\* pairing send (line 217), every other send delivered and no pass waiting to
\* start.  The cast: 3 joins as a single or as a team player and may leave
\* twice; 4 joins as a single and may block the bot; 5 joins as a team player
\* or as a judge, after choosing the interface language or not.
RejoinUsers == 5

RejoinJoins(u) ==
    CASE u = 3 -> {<<"single", "en">>, <<"team", "en">>}
      [] u = 4 -> {<<"single", "en">>}
      [] u = 5 -> {<<"team", "en">>, <<"judge", "en">>}
      [] OTHER -> {}

InitRejoin ==
    /\ limits = [users |-> RejoinUsers,
                 joins |-> [u \in 1..RejoinUsers |-> RejoinJoins(u)],
                 leavers |-> {3}, unreachable |-> {4}, choosers |-> {RejoinUsers},
                 tasks |-> MaxTasks, sched |-> MaxScheduled,
                 leaves |-> MaxLeaves + 1, fails |-> MaxSendFailures,
                 cfails |-> MaxCreateFailures, rejects |-> MaxRejects]
    /\ waiting_single_players = [l \in Langs |-> <<>>]
    /\ waiting_team_first_player = [l \in Langs |-> None]
    /\ waiting_formed_teams = [l \in Langs |-> IF l = "en" THEN QueuedTeams(1) ELSE <<>>]
    /\ waiting_judges = [l \in Langs |-> <<>>]
    /\ active_rooms = <<>>
    /\ user_involvement = [u \in Users |->
            IF u <= 2 THEN Rec("en", "player", "waiting_as_team") ELSE NoRecord]
    /\ tasks = {<<Frame("pair1", 1, 2, "en")>>}
    /\ scheduled = [l \in Langs |-> 0]
    /\ detached = <<>>
    /\ errors = {}
    /\ used = NoneUsed
    /\ obs = NoObs
    /\ last_failed = [l \in Langs |-> <<>>]
    /\ dialogue = [u \in Users |-> NoDialogue]

SpecRejoin == InitRejoin /\ [][Next]_vars

\* A run in which a participant changes language.  It starts as the run above
\* does.  The cast: 3 joins as a single, for English or for Russian, and may
\* leave once; 4 and 5 as above.
LanguageJoins(u) ==
    IF u = 3 THEN {<<"single", "en">>, <<"single", "ru">>} ELSE RejoinJoins(u)

InitLanguages ==
    /\ limits = [users |-> RejoinUsers,
                 joins |-> [u \in 1..RejoinUsers |-> LanguageJoins(u)],
                 leavers |-> {3}, unreachable |-> {4}, choosers |-> {RejoinUsers},
                 tasks |-> MaxTasks, sched |-> MaxScheduled,
                 leaves |-> MaxLeaves, fails |-> MaxSendFailures,
                 cfails |-> MaxCreateFailures, rejects |-> MaxRejects]
    /\ waiting_single_players = [l \in Langs |-> <<>>]
    /\ waiting_team_first_player = [l \in Langs |-> None]
    /\ waiting_formed_teams = [l \in Langs |-> IF l = "en" THEN QueuedTeams(1) ELSE <<>>]
    /\ waiting_judges = [l \in Langs |-> <<>>]
    /\ active_rooms = <<>>
    /\ user_involvement = [u \in Users |->
            IF u <= 2 THEN Rec("en", "player", "waiting_as_team") ELSE NoRecord]
    /\ tasks = {<<Frame("pair1", 1, 2, "en")>>}
    /\ scheduled = [l \in Langs |-> 0]
    /\ detached = <<>>
    /\ errors = {}
    /\ used = NoneUsed
    /\ obs = NoObs
    /\ last_failed = [l \in Langs |-> <<>>]
    /\ dialogue = [u \in Users |-> NoDialogue]

SpecLanguages == InitLanguages /\ [][Next]_vars

\* A run in which every create_google_meet_event call succeeds, every send is
\* delivered and nobody leaves.  It starts as SpecTwoRooms does, with enough
\* teams for two rooms waiting for English and nothing in flight, and with a
\* single waiting as well.  The cast: two judges and one more single join
\* English.  The event loop runs every task it holds: a created try_matchmake
\* task starts, a send in flight completes.
SecondJudge == Judge + 1

FirstSingle == SecondJudge + 1

DeliveredJoins(u) ==
    IF u \in {Judge, SecondJudge} THEN {<<"judge", "en">>}
    ELSE IF u > FirstSingle THEN {<<"single", "en">>}
    ELSE {}

InitDelivered ==
    /\ limits = [users |-> FirstSingle + 1,
                 joins |-> [u \in 1..(FirstSingle + 1) |-> DeliveredJoins(u)],
                 leavers |-> {}, unreachable |-> {}, choosers |-> {},
                 tasks |-> FairTasks, sched |-> FairScheduled,
                 leaves |-> 0, fails |-> 0, cfails |-> 0, rejects |-> 0]
    /\ waiting_single_players = [l \in Langs |-> IF l = "en" THEN <<FirstSingle>> ELSE <<>>]
    /\ waiting_team_first_player = [l \in Langs |-> None]
    /\ waiting_formed_teams =
          [l \in Langs |-> IF l = "en" THEN QueuedTeams(2 * TEAMS_PER_ROOM) ELSE <<>>]
    /\ waiting_judges = [l \in Langs |-> <<>>]
    /\ active_rooms = <<>>
    /\ user_involvement = [u \in Users |->
            IF u < Judge THEN Rec("en", "player", "waiting_as_team")
            ELSE IF u = FirstSingle THEN Rec("en", "player", "waiting_single")
            ELSE NoRecord]
    /\ tasks = {}
    /\ scheduled = [l \in Langs |-> 0]
    /\ detached = <<>>
    /\ errors = {}
    /\ used = NoneUsed
    /\ obs = NoObs
    /\ last_failed = [l \in Langs |-> <<>>]
    /\ dialogue = [u \in Users |-> NoDialogue]

\* a created try_matchmake task starts and its create_google_meet_event call,
\* if it makes one, succeeds
PassRuns == \E lang \in Langs : TryMatchmake(lang, TRUE)

\* a send in flight is delivered, and so is the creation the coroutine may go
\* on to
Delivered == \E t \in tasks : SendDone(t, TRUE)

NextDelivered ==
    \/ \E u \in Users, lang \in Langs : AddPlayerSingle(u, lang)
    \/ \E u \in Users, lang \in Langs : AddJudge(u, lang)
    \/ PassRuns
    \/ Delivered

\* asyncio runs every task that is ready: weak fairness on the start of the
\* created passes and on the completion of the sends
SpecDelivered ==
    InitDelivered /\ [][NextDelivered]_vars /\ WF_vars(PassRuns) /\ WF_vars(Delivered)

\* A fair run in which a team player leaves.  It starts when participants 1
\* and 2 wait for English as the team (1,2) and 3 as a single, nothing in
\* flight.  The cast: 1 may leave; 4 joins English as a single, 5 as a judge.
\* Every send is delivered and every created pass starts.
CascadeUsers == 5
\* users of a run of the onboarding dialogue, and coroutines suspended at a time
DialogueUsers == 2
DialogueTasks == 2

CascadeJoins(u) ==
    CASE u = 4 -> {<<"single", "en">>}
      [] u = 5 -> {<<"judge", "en">>}
      [] OTHER -> {}

InitCascade ==
    /\ limits = [users |-> CascadeUsers,
                 joins |-> [u \in 1..CascadeUsers |-> CascadeJoins(u)],
                 leavers |-> {1}, unreachable |-> {}, choosers |-> {},
                 tasks |-> FairTasks, sched |-> FairScheduled,
                 leaves |-> MaxLeaves, fails |-> 0, cfails |-> 0, rejects |-> 0]
    /\ waiting_single_players = [l \in Langs |-> IF l = "en" THEN <<3>> ELSE <<>>]
    /\ waiting_team_first_player = [l \in Langs |-> None]
    /\ waiting_formed_teams = [l \in Langs |-> IF l = "en" THEN QueuedTeams(1) ELSE <<>>]
    /\ waiting_judges = [l \in Langs |-> <<>>]
    /\ active_rooms = <<>>
    /\ user_involvement = [u \in Users |->
            IF u <= 2 THEN Rec("en", "player", "waiting_as_team")
            ELSE IF u = 3 THEN Rec("en", "player", "waiting_single")
            ELSE NoRecord]
    /\ tasks = {}
    /\ scheduled = [l \in Langs |-> 0]
    /\ detached = <<>>
    /\ errors = {}
    /\ used = NoneUsed
    /\ obs = NoObs
    /\ last_failed = [l \in Langs |-> <<>>]
    /\ dialogue = [u \in Users |-> NoDialogue]

NextCascade ==
    \/ \E u \in Users, lang \in Langs : AddPlayerSingle(u, lang)
    \/ \E u \in Users, lang \in Langs : AddJudge(u, lang)
    \/ \E u \in Users : Leave(u)
    \/ PassRuns
    \/ Delivered

SpecCascade ==
    InitCascade /\ [][NextCascade]_vars /\ WF_vars(PassRuns) /\ WF_vars(Delivered)

\* A run in which participants ask for the numbers of those waiting (/online).
\* It starts as SpecQueue does, with every pool of English in use.  The cast:
\* 8 joins as a team player and 9 as a single, each for English or Russian; 1
\* may leave.  Every send is delivered and every creation succeeds.
StatsJoins(u) ==
    CASE u = 8 -> {<<"team", "en">>, <<"team", "ru">>}
      [] u = 9 -> {<<"single", "en">>, <<"single", "ru">>}
      [] OTHER -> {}

InitStats ==
    /\ limits = [users |-> 9,
                 joins |-> [u \in 1..9 |-> StatsJoins(u)],
                 leavers |-> {1}, unreachable |-> {}, choosers |-> {},
                 tasks |-> MaxTasks, sched |-> MaxScheduled,
                 leaves |-> MaxLeaves, fails |-> 0, cfails |-> 0, rejects |-> 0]
    /\ waiting_single_players = [l \in Langs |-> IF l = "en" THEN <<5>> ELSE <<>>]
    /\ waiting_team_first_player = [l \in Langs |-> IF l = "en" THEN 7 ELSE None]
    /\ waiting_formed_teams = [l \in Langs |-> IF l = "en" THEN QueuedTeams(2) ELSE <<>>]
    /\ waiting_judges = [l \in Langs |-> IF l = "en" THEN <<6>> ELSE <<>>]
    /\ active_rooms = <<>>
    /\ user_involvement = [u \in Users |->
            CASE u <= 4 -> Rec("en", "player", "waiting_as_team")
              [] u = 5 -> Rec("en", "player", "waiting_single")
              [] u = 6 -> Rec("en", "judge", "waiting_judge")
              [] u = 7 -> Rec("en", "player", "waiting_team_partner")
              [] OTHER -> NoRecord]
    /\ tasks = {}
    /\ scheduled = [l \in Langs |-> 0]
    /\ detached = <<>>
    /\ errors = {}
    /\ used = NoneUsed
    /\ obs = NoObs
    /\ last_failed = [l \in Langs |-> <<>>]
    /\ dialogue = [u \in Users |-> NoDialogue]

\* the /online command: cmd_online calls get_waiting_stats
CmdOnline ==
    /\ Commit(cmd_online(Cur(TRUE)))

NextStats ==
    \/ \E u \in Users, lang \in Langs : AddPlayerSingle(u, lang)
    \/ \E u \in Users, lang \in Langs : AddPlayerTeam(u, lang)
    \/ \E u \in Users : Leave(u)
    \/ PassRuns
    \/ Delivered
    \/ CmdOnline

SpecStats == InitStats /\ [][NextStats]_vars

-----------------------------------------------------------------------------
(* The onboarding dialogue                                                 *)

\* the texts a user may send: the two commands, the two language buttons, the
\* buttons of the role and team type keyboards as shown for English (which are
\* none of the buttons shown for Russian), and a text that is no button at all
Texts ==
    {<<"/start", "">>, <<"/play", "">>, <<"other", "">>,
     get_message("en", "lang_en"), get_message("ru", "lang_ru")}
    \cup {get_message("en", k) : k \in {"role_player", "role_judge", "team_type_single", "team_type_team"}}

\* a run from the constructor's state in which every join goes through the
\* dialogue; every send is delivered
InitDialogue ==
    /\ limits = [users |-> DialogueUsers,
                 joins |-> [u \in 1..DialogueUsers |-> {}],
                 leavers |-> {}, unreachable |-> {}, choosers |-> {},
                 tasks |-> DialogueTasks, sched |-> DialogueTasks,
                 leaves |-> 0, fails |-> 0, cfails |-> 0, rejects |-> MaxRejects]
    /\ Constructed

\* a message of user u reaches the dispatcher
Message(u, text) ==
    /\ Arrives
    /\ Commit(Dispatch([Cur(TRUE) EXCEPT !.obs.said = [u |-> u, text |-> text,
                                                        state |-> dialogue[u].state]],
                        u, text))

NextDialogue ==
    \/ \E u \in Users, text \in Texts : Message(u, text)
    \/ PassRuns
    \/ Delivered

SpecDialogue == InitDialogue /\ [][NextDialogue]_vars


-----------------------------------------------------------------------------
(* Views of the state used by the properties                               *)

InSeq(seq, u) == \E i \in 1..Len(seq) : seq[i] = u

InTeams(teams, u) == \E i \in 1..Len(teams) : InSeq(teams[i], u)

InRoom(room, u) == room.judge = u \/ InTeams(room.teams, u)

LastRoom == active_rooms[Len(active_rooms)]

\* a try_matchmake pass is still sending the room-ready messages of room rid
Notifying(rid) == \E f \in FramesOf(tasks) : f.pc = "room" /\ f.rid = rid

-----------------------------------------------------------------------------
(* Reservation, creation and rollback (SpecRoom)                           *)

\* C6: a pass reserves (and so attempts a creation) exactly when, after its
\* loop, the language has at least 4 formed teams and at least 1 judge; a pass
\* that does not reserve takes nothing from the pools and creates no room; and
\* a room appears, or a creation fails, only in a step of a pass that reserved.
ReservesIffEnough ==
    [][ /\ obs'.kind = "check" =>
             /\ obs'.reserved <=> (Len(obs'.teams) >= 4 /\ Len(obs'.judges) >= 1)
             /\ ~obs'.reserved =>
                  /\ active_rooms' = active_rooms
                  /\ used'.cfails = used.cfails
                  /\ waiting_formed_teams'[obs'.lang] = obs'.teams
                  /\ waiting_judges'[obs'.lang] = obs'.judges
        /\ (active_rooms' # active_rooms \/ used'.cfails # used.cfails) =>
             obs'.kind = "check" /\ obs'.reserved ]_vars

\* a pass met three teams and two judges and reserved nothing
ThreeTeamsTwoJudges ==
    /\ obs.kind = "check" /\ ~obs.reserved
    /\ Len(obs.teams) = 3 /\ Len(obs.judges) = 2
    /\ active_rooms = <<>>

\* C7: every room holds exactly TEAMS_PER_ROOM teams and one judge; the room a
\* pass creates holds the first TEAMS_PER_ROOM teams and the first judge its
\* language's pools had at reservation, in pool order, and the pools keep the
\* entries behind them in their order.
RoomTakesTheEarliest ==
    /\ \A i \in 1..Len(active_rooms) :
          /\ Len(active_rooms[i].teams) = TEAMS_PER_ROOM
          /\ active_rooms[i].judge # None
          /\ active_rooms[i].id = i
    /\ (obs.kind = "check" /\ obs.created) =>
          /\ LastRoom.language = obs.lang
          /\ LastRoom.teams = [i \in 1..TEAMS_PER_ROOM |-> obs.teams[i]]
          /\ LastRoom.judge = obs.judges[1]
          /\ waiting_formed_teams[obs.lang] =
                [i \in 1..(Len(obs.teams) - TEAMS_PER_ROOM) |-> obs.teams[i + TEAMS_PER_ROOM]]
          /\ waiting_judges[obs.lang] =
                [i \in 1..(Len(obs.judges) - 1) |-> obs.judges[i + 1]]
          /\ active_rooms = Append(obs.rooms, LastRoom)

\* a room was created while a fifth team and a second judge were waiting
RoomWithOthersBehind ==
    /\ obs.kind = "check" /\ obs.created
    /\ Len(obs.teams) > TEAMS_PER_ROOM /\ Len(obs.judges) > 1

\* C8: once the pass that created a room is over, every participant of the
\* room has status in_game with the room's id.
ReservedEndInGame ==
    \A i \in 1..Len(active_rooms) :
        ~Notifying(active_rooms[i].id) =>
            \A u \in Users : InRoom(active_rooms[i], u) =>
                /\ user_involvement[u].status = "in_game"
                /\ user_involvement[u].room = active_rooms[i].id

\* C9: when the creation fails, the formed-team pool, the judge pool and the
\* registry are what they were before the reservation, and active_rooms is
\* unchanged.
RollbackRestores ==
    (obs.kind = "check" /\ obs.reserved /\ ~obs.created) =>
        /\ waiting_formed_teams[obs.lang] = obs.teams
        /\ waiting_judges[obs.lang] = obs.judges
        /\ user_involvement = obs.inv
        /\ active_rooms = obs.rooms

\* a creation failed while a fifth team and a second judge were waiting
RollbackWithOthersBehind ==
    /\ obs.kind = "check" /\ obs.reserved /\ ~obs.created
    /\ Len(obs.teams) > TEAMS_PER_ROOM /\ Len(obs.judges) > 1

\* C10: the pass that creates a room after a failed creation, none of whose
\* reserved participants has been removed since, reserves the same teams and
\* the same judge as the failed one.
RetryReservesTheSame ==
    (obs.kind = "check" /\ obs.created /\ obs.retry # <<>>) =>
        Participants(LastRoom.judge, LastRoom.teams) = obs.retry

\* a room was created on the retry, after a team and a judge had joined behind
\* the participants of the failed reservation
RetryWithOthersBehind ==
    /\ obs.kind = "check" /\ obs.created /\ obs.retry # <<>>
    /\ Len(obs.teams) > TEAMS_PER_ROOM /\ Len(obs.judges) > 1

-----------------------------------------------------------------------------
(* The registry against the pools and the rooms (SpecRoom)                 *)

\* C2: the status of every participant names the structure that holds the
\* participant: waiting_single iff in singles of the record's language,
\* waiting_team_partner iff that language's pending partner, waiting_as_team iff
\* member of a formed team, waiting_judge iff in judges, in_game iff member of
\* the room of the status; a participant without a record is in no pool.
RegistryMatchesPools ==
    \A u \in Users :
        LET r == user_involvement[u]
            known == r.game_lang \in Langs
        IN  /\ r.status = "waiting_single" <=>
                  (known /\ InSeq(waiting_single_players[r.game_lang], u))
            /\ r.status = "waiting_team_partner" <=>
                  (known /\ waiting_team_first_player[r.game_lang] = u)
            /\ r.status = "waiting_as_team" <=>
                  (known /\ InTeams(waiting_formed_teams[r.game_lang], u))
            /\ r.status = "waiting_judge" <=>
                  (known /\ InSeq(waiting_judges[r.game_lang], u))
            /\ r.status = "in_game" <=>
                  (\E i \in 1..Len(active_rooms) :
                       active_rooms[i].id = r.room /\ InRoom(active_rooms[i], u))
            /\ r.status = "absent" =>
                  \A l \in Langs :
                      /\ ~InSeq(waiting_single_players[l], u)
                      /\ waiting_team_first_player[l] # u
                      /\ ~InTeams(waiting_formed_teams[l], u)
                      /\ ~InSeq(waiting_judges[l], u)

-----------------------------------------------------------------------------
(* Joins of an occupied participant (SpecRoom)                             *)

Occupied(u) == user_involvement[u].status \notin {"absent", "none"}

QueuesAndRooms ==
    <<waiting_single_players, waiting_team_first_player, waiting_formed_teams,
      waiting_judges, user_involvement, active_rooms>>

\* the tasks a step starts or moves on, and those it moves on or ends
TasksAhead == tasks' \ tasks

TasksBehind == tasks \ tasks'

\* t is add_player_single / add_player_team / add_judge suspended in the send
\* that follows a join it accepted
JoinAccepted(t) ==
    Len(t) = 1 /\ Head(t).pc \in {"single_wait", "judge_wait", "team_first", "self_team", "team_mate"}

Joiner(t) == IF Head(t).pc = "team_mate" THEN Head(t).v ELSE Head(t).u

\* a join has answered "already_in_queue" (line 78, 94 or 149)
JoinRejected == used'.rejects # used.rejects

\* t is a rejected join suspended in the send of "already_in_queue"; when the
\* send is over the call returns False
Rejection(t) == Head(t).pc = "join_reject"

\* the send failed with a permanent delivery error
Undeliverable == used'.fails # used.fails

InNoPool(u) ==
    \A l \in Langs :
        /\ ~InSeq(waiting_single_players[l], u)
        /\ waiting_team_first_player[l] # u
        /\ ~InTeams(waiting_formed_teams[l], u)
        /\ ~InSeq(waiting_judges[l], u)

-----------------------------------------------------------------------------
(* Uniqueness in the pools (Spec) and in the rooms (SpecTwoRooms)          *)

\* the places of the pools that hold u
PlacesInPools(u) ==
    UNION {    {<<l, "single", i>> : i \in {j \in 1..Len(waiting_single_players[l]) :
                                               waiting_single_players[l][j] = u}}
          \cup {<<l, "first", 1>> : i \in {j \in {1} : waiting_team_first_player[l] = u}}
          \cup {<<l, "team", i>> : i \in {j \in 1..Len(Members(waiting_formed_teams[l])) :
                                               Members(waiting_formed_teams[l])[j] = u}}
          \cup {<<l, "judge", i>> : i \in {j \in 1..Len(waiting_judges[l]) :
                                               waiting_judges[l][j] = u}}
          : l \in Langs}

\* the places of the rooms that hold u
PlacesInRooms(u) ==
    UNION {{<<r, i>> : i \in {j \in 1..(PLAYERS_PER_ROOM + 1) :
                Participants(active_rooms[r].judge, active_rooms[r].teams)[j] = u}}
           : r \in 1..Len(active_rooms)}

\* C1: each participant occurs at most once in all of singles, pending
\* partner, members of formed teams and judges of all languages.
OncePerPools == \A u \in Users : Cardinality(PlacesInPools(u)) <= 1

\* C3: each participant occurs at most once in all of the rooms.
OncePerRooms == \A u \in Users : Cardinality(PlacesInRooms(u)) <= 1

\* C5: an iteration of the team-formation loop takes the first two of the
\* language's singles, leaves the others in the pool, appends the team of the
\* two to the formed teams and sets both statuses to waiting_as_team.
PairsInArrivalOrder ==
    obs.kind = "pair" =>
        /\ Len(obs.singles) >= MAX_PLAYERS_PER_TEAM
        /\ obs.team = <<obs.singles[1], obs.singles[2]>>
        /\ waiting_single_players[obs.lang] =
              [i \in 1..(Len(obs.singles) - 2) |-> obs.singles[i + 2]]
        /\ waiting_formed_teams[obs.lang] # <<>>
        /\ waiting_formed_teams[obs.lang][Len(waiting_formed_teams[obs.lang])] = obs.team
        /\ \A i \in 1..2 : user_involvement[obs.team[i]].status = "waiting_as_team"

-----------------------------------------------------------------------------
(* Removals (SpecQueue, Spec)                                              *)

\* the number of entries of seq equal to x
CountIn(seq, x) == Cardinality({i \in 1..Len(seq) : seq[i] = x})

\* the teams of the list that hold u
TeamsOf(teams, u) == {i \in 1..Len(teams) : teams[i][1] = u \/ teams[i][2] = u}

OtherOf(team, u) == IF team[1] = u THEN team[2] ELSE team[1]

\* u is in no pool of the state a
InNoPoolOf(a, u) ==
    \A l \in Langs :
        /\ ~InSeq(a.sp[l], u)
        /\ a.fp[l] # u
        /\ ~InTeams(a.ft[l], u)
        /\ ~InSeq(a.jd[l], u)

\* C11: when remove_user_from_queues is called for a member U1 of a team of
\* formedTeams, then afterwards the team is no longer in formedTeams, U1 has no
\* record and is in no pool, and the other member U2 has status waiting_single
\* and occurs exactly once in the singles of the language.
TeamLeaverCascades ==
    [][obs'.rm.called =>
         \A l \in Langs : \A i \in TeamsOf(waiting_formed_teams[l], obs'.rm.u) :
            LET team == waiting_formed_teams[l][i]
                mate == OtherOf(team, obs'.rm.u)
                a == obs'.rm.after
            IN  /\ ~InSeq(a.ft[l], team)
                /\ a.inv[obs'.rm.u] = NoRecord
                /\ InNoPoolOf(a, obs'.rm.u)
                /\ a.inv[mate].status = "waiting_single"
                /\ CountIn(a.sp[l], mate) = 1]_vars

\* a member of a waiting team has left, from the one team position or the other
FirstMemberLeft ==
    obs.rm.called /\ obs.rm.status = "waiting_as_team" /\ obs.rm.ret
        /\ obs.rm.mate > obs.rm.u

SecondMemberLeft ==
    obs.rm.called /\ obs.rm.status = "waiting_as_team" /\ obs.rm.ret
        /\ obs.rm.mate # None /\ obs.rm.mate < obs.rm.u

\* C12 (as stated): the teammate requeued by the cascade is the first entry of
\* the language's singles.
RequeuedAtTheFront ==
    (obs.rm.called /\ obs.rm.mate # None) =>
        obs.rm.after.sp[obs.rm.lang][1] = obs.rm.mate

\* C12 (amended): the teammate requeued by the cascade is the last entry of
\* the language's singles, behind every single who was already waiting.
RequeuedAtTheEnd ==
    [][(obs'.rm.called /\ obs'.rm.mate # None) =>
          obs'.rm.after.sp[obs'.rm.lang] =
              Append(waiting_single_players[obs'.rm.lang], obs'.rm.mate)]_vars

\* a teammate was requeued while a single was waiting
RequeuedBehindASingle ==
    /\ obs.rm.called /\ obs.rm.mate # None
    /\ Len(obs.rm.after.sp[obs.rm.lang]) > 1

\* the pools, the registry, the rooms and the passes scheduled, as they are
Now == [sp |-> waiting_single_players, fp |-> waiting_team_first_player,
        ft |-> waiting_formed_teams, jd |-> waiting_judges, inv |-> user_involvement,
        rooms |-> active_rooms, sched |-> scheduled]

\* C13: remove_user_from_queues called for a participant whose status is
\* in_game returns False and leaves the record, every pool, active_rooms and
\* the scheduled passes as they were, on the /leave path and on the
\* delivery-failure path; and no step takes a participant out of in_game.
InGameIsNotRemoved ==
    [][/\ \A u \in DOMAIN user_involvement :
              user_involvement[u].status = "in_game" =>
                  user_involvement'[u].status = "in_game"
       /\ (obs'.rm.called /\ obs'.rm.status = "in_game") =>
              (~obs'.rm.ret /\ obs'.rm.after = Now)]_vars

\* a participant in a game asked to leave
LeaveWhileInGame ==
    obs.rm.called /\ obs.rm.status = "in_game" /\ ~obs.rm.fromErr

\* a participant in a game turned out to be unreachable
UnreachableWhileInGame ==
    obs.rm.called /\ obs.rm.status = "in_game" /\ obs.rm.fromErr

\* the tasks whose send ended in the step, and the tasks the step left suspended
Ended == tasks \ tasks'

Begun == tasks' \ tasks

\* C14: remove_user_from_queues called for a participant without a record
\* returns False, changes no pool and no record and schedules no pass; called
\* by /leave it sends the "not_in_any_queue" message and nothing else, and the
\* end of that send changes nothing as long as the participant has no record.
\* So the second of two removals in a row changes nothing and notifies no
\* teammate.
RemovalWithoutRecordIsNoOp ==
    [][/\ (obs'.rm.called /\ obs'.rm.status = "absent") =>
              /\ ~obs'.rm.ret
              /\ obs'.rm.mate = None
              /\ obs'.rm.after = Now
              /\ ~obs'.rm.fromErr =>
                     /\ <<Frame("rm_notfound", obs'.rm.u, None, "")>> \in tasks'
                     /\ Begun \subseteq {<<Frame("rm_notfound", obs'.rm.u, None, "")>>}
                     /\ Now' = Now
       /\ \A t \in Ended :
              (Len(t) = 1 /\ t[1].pc = "rm_notfound"
                  /\ user_involvement[t[1].u].status = "absent") =>
                  (Now' = Now /\ Begun = {})]_vars

\* a participant who had left asked to leave a second time
SecondRemoval ==
    /\ obs.rm.called /\ obs.rm.status = "absent" /\ ~obs.rm.fromErr
    /\ used.leaves = 2
    /\ obs.rm.u \in {1, 4, 5, 6}

WaitingStatuses == {"waiting_single", "waiting_team_partner", "waiting_as_team", "waiting_judge"}

\* the messages remove_user_from_queues sends to the participant it was called for
ToTheLeaver == {"rm_left", "rm_notfound", "rm_ingame", "rm_notremoved"}

\* C15: when a send to a participant with a waiting status fails for good, the
\* removal called inside that send leaves the participant without a record and
\* in no pool, and it sends the removed participant no message.
\* A removal called for that participant afterwards finds no record and does
\* nothing.
UnreachableIsRemoved ==
    [][(obs'.rm.called /\ obs'.rm.fromErr) =>
          /\ obs'.rm.status \in WaitingStatuses =>
                /\ obs'.rm.after.inv[obs'.rm.u] = NoRecord
                /\ InNoPoolOf(obs'.rm.after, obs'.rm.u)
                /\ InNoPoolOf(Now', obs'.rm.u)
          /\ obs'.rm.status = "absent" => (~obs'.rm.ret /\ obs'.rm.after = Now)
          /\ \A t \in Begun : ~(t[1].pc \in ToTheLeaver /\ t[1].u = obs'.rm.u)]_vars

\* an unreachable participant was taken out of its pool
UnreachableLeftThePool ==
    /\ obs.rm.called /\ obs.rm.fromErr /\ obs.rm.ret
    /\ obs.rm.status \in WaitingStatuses

\* C16: every lookup user_involvement[id] made by add_player_team and by
\* try_matchmake (lines 111-113, 211-212, 278, 296, 306) finds a record: no
\* join and no pass ends part-way with a KeyError.
NoLookupFails == errors = {}

-----------------------------------------------------------------------------
(* Joins (SpecQueue, SpecRejoin)                                           *)

\* the step is not a removal and stores the participant P as the pending
\* partner of language l (line 135)
StoredAsPending(l) ==
    /\ ~obs'.rm.called
    /\ waiting_team_first_player[l] = None
    /\ waiting_team_first_player'[l] # None

\* the step is not a removal, empties the pending partner of language l and
\* appends a team that begins with that participant (lines 107-109)
TeamedWithPending(l) ==
    /\ ~obs'.rm.called
    /\ waiting_team_first_player[l] # None
    /\ waiting_team_first_player'[l] = None
    /\ Len(waiting_formed_teams'[l]) = Len(waiting_formed_teams[l]) + 1
    /\ waiting_formed_teams'[l][Len(waiting_formed_teams'[l])][1] = waiting_team_first_player[l]

\* the participants whose status says they wait for a partner in language l
WaitingForPartner(l) ==
    {u \in DOMAIN user_involvement :
        /\ user_involvement[u].status = "waiting_team_partner"
        /\ user_involvement[u].game_lang = l}

\* C17: add_player_team by a participant P who is not occupied.  With no
\* pending partner in the language, P becomes the pending partner with status
\* waiting_team_partner and formedTeams is unchanged.  With another participant
\* Q pending, the team (Q,P) is appended at the end of formedTeams, the pending
\* partner is cleared and Q and P both have status waiting_as_team.  No
\* language has more than one participant waiting for a partner.
TeamJoinPairsWithPending ==
    [][\A l \in Langs :
         /\ StoredAsPending(l) =>
               LET P == waiting_team_first_player'[l]
               IN  /\ ~Occupied(P)
                   /\ user_involvement'[P] = Rec(l, "player", "waiting_team_partner")
                   /\ waiting_formed_teams' = waiting_formed_teams
         /\ TeamedWithPending(l) =>
               LET Q == waiting_team_first_player[l]
                   P == waiting_formed_teams'[l][Len(waiting_formed_teams'[l])][2]
               IN  /\ ~Occupied(P)
                   /\ P # Q
                   /\ waiting_formed_teams'[l] = Append(waiting_formed_teams[l], <<Q, P>>)
                   /\ user_involvement'[Q].status = "waiting_as_team"
                   /\ user_involvement'[P].status = "waiting_as_team"
         /\ WaitingForPartner(l)' \subseteq {waiting_team_first_player'[l]}]_vars

\* a team join found a pending partner
JoinedThePending ==
    \E t \in tasks : Len(t) = 1 /\ t[1].pc = "team_mate"

\* C18: every team waiting in formedTeams and every team of a room has two
\* members with different ids.
TeamsOfTwo ==
    /\ \A l \in Langs : \A i \in 1..Len(waiting_formed_teams[l]) :
          waiting_formed_teams[l][i][1] # waiting_formed_teams[l][i][2]
    /\ \A r \in 1..Len(active_rooms) : \A i \in 1..Len(active_rooms[r].teams) :
          active_rooms[r].teams[i][1] # active_rooms[r].teams[i][2]

\* the frame of the coroutine the task began with
Bottom(t) == t[Len(t)]

\* the task, suspended before the step, has run to its end in the step
ReturnedIn(t) == \A b \in Begun : Bottom(b) # Bottom(t)

\* C19: a join as a single (as a judge) by a participant who is not occupied
\* appends the participant at the end of the singles (judges) of the language,
\* the entries already there keeping their places, and gives it a record with
\* status waiting_single (waiting_judge) and that language; when the send of
\* the waiting message is over, a pass for the language is scheduled.
JoinAppendsAndSchedules ==
    [][/\ \A t \in Begun :
             /\ (Len(t) = 1 /\ t[1].pc = "single_wait") =>
                   /\ ~Occupied(t[1].u)
                   /\ waiting_single_players'[t[1].lang] =
                          Append(waiting_single_players[t[1].lang], t[1].u)
                   /\ user_involvement'[t[1].u] = Rec(t[1].lang, "player", "waiting_single")
             /\ (Len(t) = 1 /\ t[1].pc = "judge_wait") =>
                   /\ ~Occupied(t[1].u)
                   /\ waiting_judges'[t[1].lang] = Append(waiting_judges[t[1].lang], t[1].u)
                   /\ user_involvement'[t[1].u] = Rec(t[1].lang, "judge", "waiting_judge")
       /\ \A t \in Ended :
             (Bottom(t).pc \in {"single_wait", "judge_wait"} /\ ReturnedIn(t)) =>
                 scheduled'[Bottom(t).lang] > scheduled[Bottom(t).lang]]_vars

\* a single has joined behind a waiting single
JoinedBehindASingle ==
    \E t \in tasks :
        /\ Len(t) = 1 /\ t[1].pc = "single_wait"
        /\ Len(waiting_single_players[t[1].lang]) > 1
        /\ waiting_single_players[t[1].lang][Len(waiting_single_players[t[1].lang])] = t[1].u

\* a judge has joined behind a waiting judge
JoinedBehindAJudge ==
    \E t \in tasks :
        /\ Len(t) = 1 /\ t[1].pc = "judge_wait"
        /\ Len(waiting_judges[t[1].lang]) > 1
        /\ waiting_judges[t[1].lang][Len(waiting_judges[t[1].lang])] = t[1].u

\* the entries of seq other than x, in their order
Others(seq, x) == SelectSeq(seq, LAMBDA y : y # x)

\* C20: remove_user_from_queues called for a participant with status
\* waiting_single (waiting_judge) takes exactly that participant's entry out of
\* the singles (judges) of its language, the other entries keeping their order,
\* and removes its record; the pending partners, the formed teams, the judges
\* (singles), the pools of the other language, the other records and the rooms
\* are unchanged.
SingleOrJudgeLeavesAlone ==
    [][(obs'.rm.called /\ obs'.rm.status \in {"waiting_single", "waiting_judge"}) =>
          LET u == obs'.rm.u
              l == obs'.rm.lang
              a == obs'.rm.after
          IN  /\ obs'.rm.ret
              /\ a.inv = [user_involvement EXCEPT ![u] = NoRecord]
              /\ a.fp = waiting_team_first_player
              /\ a.ft = waiting_formed_teams
              /\ a.rooms = active_rooms
              /\ IF obs'.rm.status = "waiting_single"
                 THEN /\ a.jd = waiting_judges
                      /\ a.sp = [waiting_single_players EXCEPT ![l] = Others(@, u)]
                      /\ Len(a.sp[l]) = Len(waiting_single_players[l]) - 1
                 ELSE /\ a.sp = waiting_single_players
                      /\ a.jd = [waiting_judges EXCEPT ![l] = Others(@, u)]
                      /\ Len(a.jd[l]) = Len(waiting_judges[l]) - 1]_vars

\* a single has left and another single waits on
SingleLeftTheOthers ==
    /\ obs.rm.called /\ obs.rm.status = "waiting_single" /\ obs.rm.ret
    /\ obs.rm.after.sp[obs.rm.lang] # <<>>

\* a judge has left and another judge waits on
JudgeLeftTheOthers ==
    /\ obs.rm.called /\ obs.rm.status = "waiting_judge" /\ obs.rm.ret
    /\ obs.rm.after.jd[obs.rm.lang] # <<>>

-----------------------------------------------------------------------------
(* Passes (SpecRoom, SpecTwoRooms)                                         *)

\* a try_matchmake of language l starts in the step
PassStarts(l) == obs'.began = l

\* the step forms no team, reserves nothing, attempts no creation, leaves no
\* send behind and schedules no pass
PassIdle(l) ==
    /\ UNCHANGED QueuesAndRooms
    /\ tasks' = tasks
    /\ used'.cfails = used.cfails
    /\ obs'.kind = "check" /\ ~obs'.reserved
    /\ scheduled' = [scheduled EXCEPT ![l] = @ - 1]

\* the pools of language l give a pass nothing to do
NothingToMatch(l) ==
    /\ Len(waiting_single_players[l]) < MAX_PLAYERS_PER_TEAM
    /\ ~(/\ Len(waiting_formed_teams[l]) >= TEAMS_PER_ROOM
          /\ Len(waiting_judges[l]) >= JUDGES_PER_ROOM)

\* C21 (as stated): a pass of a language that starts when the previous pass of
\* that language has just returned, nothing having happened since, performs no
\* action.
RerunDoesNothing ==
    [][\A l \in Langs : (obs.ended = l /\ PassStarts(l)) => PassIdle(l)]_vars

\* C21 (amended): a pass of a language that starts when the language has fewer
\* than MAX_PLAYERS_PER_TEAM singles and not both TEAMS_PER_ROOM formed teams
\* and JUDGES_PER_ROOM judges performs no action, whatever ran before it: it
\* forms no team, reserves nothing, attempts no creation, sends nothing and
\* schedules no pass.
RerunDoesNothingUnlessReady ==
    [][\A l \in Langs : (NothingToMatch(l) /\ PassStarts(l)) => PassIdle(l)]_vars

\* a pass has run right after a pass that had found nothing to do
RerunAfterIdlePass ==
    obs.rerun /\ obs.kind = "check" /\ ~obs.reserved

-----------------------------------------------------------------------------
(* Languages (SpecLanguages)                                               *)

\* the pools of language l
PoolsOf(l) ==
    <<waiting_single_players[l], waiting_team_first_player[l],
      waiting_formed_teams[l], waiting_judges[l]>>

\* the step is the start of a pass for language l, a call of
\* remove_user_from_queues that found a record of language l, or a join for l
StepFor(l) ==
    \/ obs'.began = l
    \/ obs'.rm.called /\ obs'.rm.lang = l
    \/ \E t \in Begun : JoinAccepted(t) /\ Head(t).lang = l

\* the languages the records of the participants in ids carry
LangsOf(ids) ==
    {user_involvement[u].game_lang : u \in {v \in ids : v \in Users}} \cap Langs

TeamIds(team) == {team[1], team[2]}

RoomIds(room) == {room.judge} \cup UNION {TeamIds(room.teams[i]) : i \in 1..Len(room.teams)}

\* no waiting team and no room has participants with records of different languages
OneLanguageTogether ==
    /\ \A l \in Langs : \A i \in 1..Len(waiting_formed_teams[l]) :
          Cardinality(LangsOf(TeamIds(waiting_formed_teams[l][i]))) <= 1
    /\ \A r \in 1..Len(active_rooms) : Cardinality(LangsOf(RoomIds(active_rooms[r]))) <= 1

\* C22: a join, a leave or the start of a pass for a language leaves the pools
\* of every other language unchanged, and no step changes the pools of two
\* languages; no waiting team and no room ever contains participants whose
\* records carry different languages.
LanguagesIndependent ==
    /\ [][\A l \in Langs : \A m \in Langs \ {l} :
             /\ StepFor(l) => PoolsOf(m)' = PoolsOf(m)
             /\ PoolsOf(l)' = PoolsOf(l) \/ PoolsOf(m)' = PoolsOf(m)]_vars
    /\ []OneLanguageTogether

-----------------------------------------------------------------------------
(* Progress (SpecDelivered)                                                *)

\* the run's limits hold back no pass and no delivery
NothingHeldBack ==
    /\ \A l \in Langs : scheduled[l] > 0 => ENABLED TryMatchmake(l, TRUE)
    /\ \A t \in tasks : ENABLED SendDone(t, TRUE)

\* no pass is waiting to start, none is suspended, and no handler is suspended
\* in a send after which it would create one
PassesOver ==
    /\ \A l \in Langs : scheduled[l] = 0
    /\ tasks = {}

\* no language has singles to pair or teams and judges for a room
NoProgressPossible == \A l \in Langs : NothingToMatch(l)

\* C23: when every creation succeeds and every send is delivered, whenever no
\* pass is left to run no language has two singles or both TEAMS_PER_ROOM teams
\* and JUDGES_PER_ROOM judges waiting, and the run comes to stay in such a
\* state; once both judges have joined the eight waiting teams, two rooms are
\* eventually made.
MatchingRunsOut ==
    /\ [](PassesOver => NoProgressPossible)
    /\ <>[](PassesOver /\ NoProgressPossible)
    /\ (HasRecord(Cur(TRUE), Judge) /\ HasRecord(Cur(TRUE), SecondJudge))
           ~> (Len(active_rooms) = 2)

\* both judges have joined, the two rooms exist and every pass is over
TwoRoomsMade ==
    /\ Len(active_rooms) = 2
    /\ PassesOver
    /\ NoProgressPossible

-----------------------------------------------------------------------------
(* Progress after a removal (SpecCascade)                                  *)

\* the step was the removal of u's teammate, which requeued u as a single and
\* left n singles of English waiting
CascadeLeft(u, n) ==
    /\ obs.rm.called /\ obs.rm.ret /\ obs.rm.status = "waiting_as_team"
    /\ obs.rm.mate = u
    /\ Len(waiting_single_players["en"]) = n

\* u is a member of a team waiting for English
Teamed(u) ==
    \E i \in 1..Len(waiting_formed_teams["en"]) : u \in TeamIds(waiting_formed_teams["en"][i])

\* C24 (as stated): after the removal of participant 1 has requeued the
\* teammate 2 and left two or more singles waiting, a team containing 2 is
\* eventually formed.
RequeuedIsTeamedAgain ==
    \A n \in 2..CascadeUsers : CascadeLeft(2, n) ~> Teamed(2)

\* C24 (amended): when the last send of a successful removal of a team player
\* is over a pass for the language is scheduled, and after the removal of
\* participant 1 has requeued the teammate 2 and left exactly
\* MAX_PLAYERS_PER_TEAM singles waiting, a team containing 2 is eventually
\* formed.
RequeuedPairIsTeamed ==
    /\ CascadeLeft(2, MAX_PLAYERS_PER_TEAM) ~> Teamed(2)
    /\ [][\A t \in Ended :
             (Bottom(t).pc = "rm_mate" /\ ReturnedIn(t)) =>
                 scheduled'[Bottom(t).lang] = scheduled[Bottom(t).lang] + 1]_vars

\* the requeued teammate is in a new team with the single that was waiting
RequeuedTeamed ==
    /\ user_involvement[1].status = "absent"
    /\ Teamed(2)

-----------------------------------------------------------------------------
(* Nobody is lost (SpecRoom)                                               *)

\* a pass that popped u for a room (lines 239-240) is still running: it is
\* suspended in one of the room-ready sends
ReservedByPass(u) ==
    \E f \in FramesOf(tasks) : f.pc = "room" /\ InSeq(f.plist, u)

\* u has joined and waits: it has a record with a waiting status and is in a
\* pool or reserved by a running pass
Queued(u) ==
    /\ user_involvement[u].status \in WaitingStatuses
    /\ ~InNoPool(u) \/ ReservedByPass(u)

\* u is in a game: a member of a room of active_rooms, with status in_game
Playing(u) ==
    /\ user_involvement[u].status = "in_game"
    /\ \E r \in 1..Len(active_rooms) : InRoom(active_rooms[r], u)

\* C25: a participant who waits goes on waiting (with a record, in a pool or
\* reserved by a running pass) in every step, except the step that makes it a
\* member of a room with status in_game and the step in which
\* remove_user_from_queues is called for it (by /leave or by a send to it that
\* failed for good).
NobodyIsLost ==
    [][\A u \in Users :
          Queued(u) => \/ Queued(u)'
                       \/ Playing(u)'
                       \/ obs'.rm.called /\ obs'.rm.u = u]_vars

-----------------------------------------------------------------------------
(* The pending partner (SpecRejoin, SpecQueue)                             *)

\* the step is add_player_team teaming the pending partner of language l with
\* its caller (lines 106-108)
TeamedWithCaller(l) ==
    /\ waiting_team_first_player'[l] = None
    /\ \E j \in Users \ {waiting_team_first_player[l]} :
          waiting_formed_teams'[l] =
              Append(waiting_formed_teams[l], <<waiting_team_first_player[l], j>>)

\* C26: the pending partner of a language stops being it only when
\* add_player_team teams it with its caller or when remove_user_from_queues is
\* called for it; a pairing step of try_matchmake leaves the pending partner
\* as it is and forms a team without it; a pass that starts with one single
\* and a pending partner waiting, and no room to make, changes nothing.
PendingPartnerIsNotPaired ==
    [][\A l \in Langs :
          LET first == waiting_team_first_player[l]
          IN  /\ (first # None /\ waiting_team_first_player'[l] # first) =>
                     \/ TeamedWithCaller(l)
                     \/ obs'.rm.called /\ obs'.rm.u = first
              /\ (obs'.kind = "pair" /\ obs'.lang = l) =>
                     /\ waiting_team_first_player'[l] = first
                     /\ first # None => first \notin TeamIds(obs'.team)
              /\ (/\ PassStarts(l) /\ first # None /\ NothingToMatch(l)
                  /\ Len(waiting_single_players[l]) = 1) => PassIdle(l)]_vars

\* a pass has found one single and a pending partner and has paired nobody
SingleAndPendingLeftAlone ==
    \E l \in Langs :
        /\ obs.began = l /\ obs.kind = "check" /\ ~obs.reserved
        /\ Len(waiting_single_players[l]) = 1
        /\ waiting_team_first_player[l] # None

-----------------------------------------------------------------------------
(* After a rollback (SpecTwoRooms)                                         *)

\* the pass of language l that rolled back has just returned
RolledBackReturned(l) ==
    obs.ended = l /\ obs.kind = "none" /\ last_failed[l] # <<>>

\* the step is a room check that reserves and calls create_google_meet_event
CreationAttempted == obs'.kind = "check" /\ obs'.reserved

\* nothing is in flight: no coroutine is suspended and no pass waits to start
Quiet == tasks = {} /\ \A l \in Langs : scheduled[l] = 0

\* C27 (as stated): when the pass that rolled back has returned and the next
\* thing to happen is not a join, a leave or a delivery failure but the start
\* of a pass, that pass attempts no creation.
NoAttemptAfterRollback ==
    [][\A l \in Langs : (RolledBackReturned(l) /\ PassStarts(l)) => ~CreationAttempted]_vars

\* C27 (amended): the step in which a creation fails schedules no pass (unless
\* it began with the end of a removal's send, which schedules one); the
\* steps in which the failure notices of the rolled-back pass are delivered
\* change no pool, attempt no creation and schedule no pass; and once nothing
\* is in flight no creation is attempted until a join or a leave.
RollbackIsNotRetried ==
    [][/\ (CreationAttempted /\ ~obs'.created /\ \A t \in Ended : Head(t).pc = "pair2") =>
              \A l \in Langs : scheduled'[l] <= scheduled[l]
       /\ \A t \in Ended :
              (Head(t).pc = "meet_failed" /\ ~obs'.rm.called) =>
                  /\ UNCHANGED <<QueuesAndRooms, scheduled>>
                  /\ ~CreationAttempted
                  /\ used'.cfails = used.cfails
       /\ Quiet => ~CreationAttempted]_vars

\* after a rollback nothing is in flight and the teams and the judge wait
StuckAfterRollback ==
    \E l \in Langs :
        /\ Quiet
        /\ last_failed[l] # <<>>
        /\ EnoughForRoom(waiting_formed_teams[l], waiting_judges[l])
        /\ Participants(SelectedJudge(waiting_judges[l]), SelectedTeams(waiting_formed_teams[l]))
               = last_failed[l]

-----------------------------------------------------------------------------
(* The waiting numbers (SpecStats)                                         *)

RECURSIVE PlayersWaiting(_)
\* singles + half teams + MAX_PLAYERS_PER_TEAM * formed teams, summed over the
\* languages in ls
PlayersWaiting(ls) ==
    IF ls = {} THEN 0
    ELSE LET l == CHOOSE x \in ls : TRUE
         IN  Len(waiting_single_players[l])
             + (IF waiting_team_first_player[l] # None THEN 1 ELSE 0)
             + MAX_PLAYERS_PER_TEAM * Len(waiting_formed_teams[l])
             + PlayersWaiting(ls \ {l})

\* the four numbers the dict d gives for language l
StatsOf(d, l) ==
    IF l = "en"
    THEN <<d.en_single_players, d.en_half_teams, d.en_formed_teams, d.en_judges>>
    ELSE <<d.ru_single_players, d.ru_half_teams, d.ru_formed_teams, d.ru_judges>>

\* C28: a call of get_waiting_stats changes no pool, no record, no room, no
\* task and no scheduled pass, and the dict it returns gives, for each
\* language, the length of singles, 1 or 0 for the pending partner, the number
\* of formed teams and the number of judges as they are at the call, and as
\* total_players_waiting the sum over the languages of singles + half teams +
\* MAX_PLAYERS_PER_TEAM * formed teams.
StatsAreASnapshot ==
    [][obs'.online =>
          /\ UNCHANGED <<QueuesAndRooms, tasks, scheduled, detached, errors, used, last_failed>>
          /\ \A l \in Langs :
                StatsOf(obs'.stats, l) =
                    <<Len(waiting_single_players[l]),
                      IF waiting_team_first_player[l] # None THEN 1 ELSE 0,
                      Len(waiting_formed_teams[l]),
                      Len(waiting_judges[l])>>
          /\ obs'.stats.total_players_waiting = PlayersWaiting(Langs)]_vars

\* /online has been answered while singles, a pending partner and teams waited
\* in both languages together
StatsWithBothLanguages ==
    /\ obs.online
    /\ obs.stats.ru_single_players + obs.stats.ru_half_teams > 0
    /\ obs.stats.en_formed_teams > 0
    /\ obs.stats.en_single_players + obs.stats.en_half_teams > 0

-----------------------------------------------------------------------------
\* The registry

\* "waiting_single", "waiting_team_partner", "waiting_as_team", "waiting_judge"
\* and f"in_game_{room_id}": the statuses GameManager writes
DefinedStatuses == WaitingStatuses \cup {"in_game"}

\* the entry of u has the keys game_lang and role and a status GameManager writes
FullRecord(u) ==
    /\ user_involvement[u].game_lang \in Langs
    /\ user_involvement[u].role \in {"player", "judge"}
    /\ user_involvement[u].status \in DefinedStatuses

\* C29: in every reachable state, the selection of the interface language
\* included, user_involvement has an entry for a participant only if the
\* participant is queued or in a game, and every entry carries a language, a
\* role and one of the statuses GameManager writes.
RecordsOnlyOfParticipants ==
    \A u \in Users :
        user_involvement[u].status # "absent" =>
            /\ Queued(u) \/ Playing(u)
            /\ FullRecord(u)

-----------------------------------------------------------------------------
\* The rooms

\* the step appends one room to active_rooms and leaves the others as they are
OneRoomAppended ==
    /\ Len(active_rooms') = Len(active_rooms) + 1
    /\ SubSeq(active_rooms', 1, Len(active_rooms)) = active_rooms

\* C30: a step changes active_rooms only when it is the step of a pass whose
\* creation succeeded, and then it appends exactly one room, made of the
\* pass's language, the judge and the teams it reserved and the link of the
\* created event; the step of a failed creation leaves active_rooms as it is;
\* no step removes a room or changes the id, language, judge, teams or link of
\* a room that exists.
RoomsOnlyAppended ==
    [][/\ (obs'.kind = "check" /\ obs'.created) =>
             /\ OneRoomAppended
             /\ active_rooms'[Len(active_rooms')] =
                   [id |-> Len(active_rooms) + 1, language |-> obs'.lang,
                    judge |-> obs'.judges[1],
                    teams |-> SubSeq(obs'.teams, 1, TEAMS_PER_ROOM),
                    meet_link |-> MeetLink(Len(active_rooms) + 1)]
       /\ ~(obs'.kind = "check" /\ obs'.created) => active_rooms' = active_rooms]_vars

\* a second room has been appended after a creation had failed, and a pass of
\* the first room is still sending its notifications
SecondRoomAppended ==
    /\ obs.kind = "check" /\ obs.created
    /\ Len(active_rooms) = 2
    /\ used.cfails > 0

-----------------------------------------------------------------------------
\* The pending partner and the removal

\* the step begins with a call of remove_user_from_queues that finds an entry
\* with status waiting_team_partner
PendingPartnerLeaves == obs'.rm.called /\ obs'.rm.status = "waiting_team_partner"

\* C31: a call of remove_user_from_queues for a participant with status
\* waiting_team_partner sets waiting_team_first_player of the entry's language
\* to None if and only if it holds the participant's id; it returns True and
\* the participant's entry is gone; a pending partner who is somebody else
\* stays, and no other language's pending partner changes.
PendingPartnerRemoval ==
    [][PendingPartnerLeaves =>
          LET u == obs'.rm.u
              l == obs'.rm.lang
              after == obs'.rm.after
          IN  /\ waiting_team_first_player[l] = u => after.fp[l] = None
              /\ waiting_team_first_player[l] # u => after.fp[l] = waiting_team_first_player[l]
              /\ \A k \in Langs \ {l} : after.fp[k] = waiting_team_first_player[k]
              /\ obs'.rm.ret
              /\ after.inv[u] = NoRecord]_vars

\* a pending partner has been removed and the language has none now
PendingPartnerRemoved ==
    /\ obs.rm.called /\ obs.rm.status = "waiting_team_partner" /\ obs.rm.ret
    /\ waiting_team_first_player[obs.rm.lang] = None

\* every pending partner has an entry with status waiting_team_partner for the
\* language it is pending in
PendingPartnerRecorded ==
    \A l \in Langs :
        waiting_team_first_player[l] # None =>
            /\ user_involvement[waiting_team_first_player[l]].status = "waiting_team_partner"
            /\ user_involvement[waiting_team_first_player[l]].game_lang = l

\* no call of add_player_team is in the branch of line 101 (the joining id is
\* the pending partner's)
SelfTeamNever == \A f \in FramesOf(tasks) : f.pc # "self_team"

\* C33: whenever waiting_team_first_player of a language holds a participant,
\* the participant has an entry with status waiting_team_partner for that
\* language, so that is_user_occupied is true for it, and no call of
\* add_player_team reaches the self-teaming branch.
PendingPartnerHasRecord ==
    /\ PendingPartnerRecorded
    /\ \A l \in Langs : waiting_team_first_player[l] # None =>
            user_involvement[waiting_team_first_player[l]].status \notin {"absent", "none"}
    /\ SelfTeamNever

-----------------------------------------------------------------------------
\* A departure and the passes in flight

\* u is in a pool, is the pending partner or is a member of a room
Placed(u) == ~InNoPool(u) \/ \E r \in 1..Len(active_rooms) : InRoom(active_rooms[r], u)

\* the same in the state a call of remove_user_from_queues left behind
PlacedIn(a, u) == ~InNoPoolOf(a, u) \/ \E r \in 1..Len(a.rooms) : InRoom(a.rooms[r], u)

\* u has no entry with a status: it never joined, or it left and has not
\* joined since (a join is the only statement that creates such an entry)
Away(u) == user_involvement[u].status \in {"absent", "none"}

\* C32: when remove_user_from_queues returns True for a participant, the
\* participant is in no pool and in no room; and a participant who is away and
\* in no pool and no room stays so in every step, whichever pass runs, until
\* the step in which the participant joins again.
DepartureHolds ==
    [][/\ (obs'.rm.called /\ obs'.rm.ret) => ~PlacedIn(obs'.rm.after, obs'.rm.u)
       /\ \A u \in Users : (Away(u) /\ ~Placed(u)) => (~Placed(u)' \/ ~Away(u)')]_vars

-----------------------------------------------------------------------------
\* A removal that fails

\* C34: a call of remove_user_from_queues that returns False leaves every
\* entry of user_involvement, every pool and every pending partner as they
\* were at the call; the caller's entry in particular is the same.
FailedRemovalChangesNothing ==
    [][(obs'.rm.called /\ ~obs'.rm.ret) =>
          /\ obs'.rm.after.inv = user_involvement
          /\ obs'.rm.after.sp = waiting_single_players
          /\ obs'.rm.after.fp = waiting_team_first_player
          /\ obs'.rm.after.ft = waiting_formed_teams
          /\ obs'.rm.after.jd = waiting_judges]_vars

-----------------------------------------------------------------------------
\* Singles left over

\* the frames of try_matchmake
PassFrame(f) == f.pc \in {"loop", "pair1", "pair2", "room", "meet_failed"}

\* no try_matchmake task for the language has been created and not started,
\* and none is suspended in a send
NoPassFor(l) ==
    /\ scheduled[l] = 0
    /\ \A t \in tasks : ~(PassFrame(Bottom(t)) /\ Bottom(t).lang = l)

\* C35 (as stated): whenever no pass is running or scheduled for a language,
\* the singles of the language hold at most one participant.
AtMostOneSingleLeft ==
    \A l \in Langs : NoPassFor(l) => Len(waiting_single_players[l]) < MAX_PLAYERS_PER_TEAM

\* no pass for the language is scheduled and no coroutine working for the
\* language (a join, a removal or a pass) is suspended in a send
AtRest(l) ==
    /\ scheduled[l] = 0
    /\ \A f \in FramesOf(tasks) : f.lang # l

\* C35 (amended): whenever no pass for a language is scheduled and no join,
\* removal or pass for the language is suspended in a send, the singles of the
\* language hold at most one participant.
AtMostOneSingleAtRest ==
    \A l \in Langs : AtRest(l) => Len(waiting_single_players[l]) < MAX_PLAYERS_PER_TEAM

\* a pass has paired two singles and left one, and the language is at rest
OneSingleLeftAtRest ==
    \E l \in Langs :
        /\ AtRest(l)
        /\ Len(waiting_single_players[l]) = 1
        /\ waiting_formed_teams[l] # <<>>
        /\ obs.kind = "check" /\ obs.lang = l

-----------------------------------------------------------------------------
\* In a game for good

\* C36: a participant whose status is in_game_<room> keeps the same entry,
\* status and room, in every step of the program; is_user_occupied stays true
\* for it; and no join of it as a single, in a team or as a judge is accepted.
InGameIsTerminal ==
    [][\A u \in Users :
          user_involvement[u].status = "in_game" =>
              /\ user_involvement'[u] = user_involvement[u]
              /\ Occupied(u)'
              /\ \A t \in TasksAhead : JoinAccepted(t) => Joiner(t) # u]_vars

-----------------------------------------------------------------------------
\* The onboarding dialogue

DialogueSteps ==
    {"choosing_ui_language", "choosing_game_language", "choosing_role", "choosing_team_type"}

\* the texts of the buttons offered to u in its step of the dialogue
Offered(u) ==
    LET lang == dialogue[u].game_language
    IN  CASE dialogue[u].state \in {"choosing_ui_language", "choosing_game_language"} ->
                {get_message("en", "lang_en"), get_message("ru", "lang_ru")}
          [] dialogue[u].state = "choosing_role" ->
                {get_message(lang, "role_player"), get_message(lang, "role_judge")}
          [] dialogue[u].state = "choosing_team_type" ->
                {get_message(lang, "team_type_single"), get_message(lang, "team_type_team")}
          [] OTHER -> {}

\* the step has called add_player_single, add_player_team or add_judge for u:
\* a handler of u is now waiting for its join to return
JoinCalledFor(u) ==
    \E t \in Begun :
        /\ Bottom(t).pc \in {"role_chosen", "team_type_chosen"}
        /\ Bottom(t).u = u
        /\ \A e \in Ended : Bottom(e) # Bottom(t)

\* C37: a reply that is none of the buttons offered leaves the user in the
\* same step of the dialogue, for each of the four steps; a join of GameManager
\* is called only for the judge button in choosing_role and for the single and
\* team buttons in choosing_team_type; and when the join has returned the
\* dialogue state is cleared.
UnknownReplyKeepsStep ==
    [][/\ \A u \in Users :
             (obs'.said.u = u /\ dialogue[u].state \in DialogueSteps
                 /\ obs'.said.text \notin Offered(u) /\ obs'.said.text # <<"/start", "">>) =>
                 dialogue'[u].state = dialogue[u].state
       /\ \A u \in Users :
             JoinCalledFor(u) =>
                 /\ obs'.said.u = u
                 /\ \/ /\ dialogue[u].state = "choosing_role"
                       /\ obs'.said.text = get_message(dialogue[u].game_language, "role_judge")
                    \/ /\ dialogue[u].state = "choosing_team_type"
                       /\ obs'.said.text \in Offered(u)
       /\ \A t \in Ended :
             (Bottom(t).pc \in {"role_chosen", "team_type_chosen"} /\ ReturnedIn(t)) =>
                 dialogue'[Bottom(t).u] = NoDialogue]_vars
====
